---- MODULE Spec2Model ----
(***************************************************************************)
(* Model of the funnel store (hook useFunnelStore) of the funnel builder:  *)
(* node and edge collections, label counters, validation warnings, the    *)
(* snapshot history with drag debouncing, persistence and import/export.   *)
(*                                                                         *)
(* One action is one event handler (or timer callback) together with the   *)
(* React commits and effect passes it triggers, run until nothing is       *)
(* pending.  A state of the model is therefore a settled state of the      *)
(* component.  Array identity matters to React (effect dependencies are    *)
(* compared by reference), so every handler reports which of nodes / edges *)
(* received a new array.                                                   *)
(***************************************************************************)
EXTENDS Integers, Sequences, FiniteSets, TLC

VARIABLES
    nodes,                  \* useState<FunnelNode[]>
    edges,                  \* useState<FunnelEdge[]>
    labelCounts,            \* useState(createLabelCounter)
    isInitialized,          \* useState(false)
    history,                \* useState<HistoryState[]>
    currentIndex,           \* useState(-1)
    currentIndexRef,        \* useRef(-1)
    isUndoRedoRef,          \* useRef(false)
    isInitialLoadRef,       \* useRef(true)
    isValidationUpdateRef,  \* useRef(false)
    isDraggingRef,          \* useRef(false)
    dragDebounceTimerRef,   \* useRef<Timeout | null>: handle of a timer, 0 = null
    timers,                 \* the browser's pending setTimeout callbacks
    storage,                \* localStorage[STORAGE_KEY]
    now,                    \* last reading of Date.now()
    last,                   \* the last handler that ran and what it returned
    opCount,                \* number of handler calls so far (bounds the run)
    scen                    \* bookkeeping of the scenario a property speaks about

storeVars == <<nodes, edges, labelCounts, isInitialized, history, currentIndex,
               currentIndexRef, isUndoRedoRef, isInitialLoadRef,
               isValidationUpdateRef, isDraggingRef, dragDebounceTimerRef,
               timers, storage, now, last>>

vars == <<nodes, edges, labelCounts, isInitialized, history, currentIndex,
          currentIndexRef, isUndoRedoRef, isInitialLoadRef,
          isValidationUpdateRef, isDraggingRef, dragDebounceTimerRef,
          timers, storage, now, last, opCount, scen>>

----------------------------------------------------------------------------
(* Bounds of the model *)

MaxOps == 2

MaxNodes == 4

MaxNow == 1

MaxPos == 1

MaxMut == 2

MaxBurst == 3

CapSlack == 2

CapEdits == 1

----------------------------------------------------------------------------
(* Domain model and configuration *)

MaxAdds == 2

MAX_HISTORY_SIZE == 50

DRAG_DEBOUNCE_MS == 300

NodeType == {"salesPage", "orderPage", "upsell", "downsell", "thankYou"}

NODE_TYPE_CONFIG ==
    [ salesPage |-> [label |-> "Sales Page", defaultButtonLabel |-> "Buy Now",
                     canHaveOutgoing |-> TRUE],
      orderPage |-> [label |-> "Order Page", defaultButtonLabel |-> "Complete Order",
                     canHaveOutgoing |-> TRUE],
      upsell    |-> [label |-> "Upsell", defaultButtonLabel |-> "Yes, Add This!",
                     canHaveOutgoing |-> TRUE],
      downsell  |-> [label |-> "Downsell", defaultButtonLabel |-> "Get This Instead",
                     canHaveOutgoing |-> TRUE],
      thankYou  |-> [label |-> "Thank You", defaultButtonLabel |-> "Continue",
                     canHaveOutgoing |-> FALSE] ]

\* The JavaScript value undefined, for the optional string-valued fields.
Undefined == "undefined"

\* A label is a text followed by its trailing digits: "Upsell 2" is
\* [name |-> "Upsell", num |-> 2]; NoNum says that the text ends in no digit.
NoNum == -1

Label(name, num) == [name |-> name, num |-> num]

\* label of a node whose data carries no label field
NoLabel == Label(Undefined, NoNum)

MkNode(id, nodeType, label, position, hasWarning, warningMessage) ==
    [ id |-> id, nodeType |-> nodeType, label |-> label,
      buttonLabel |-> NODE_TYPE_CONFIG[nodeType].defaultButtonLabel,
      position |-> position,
      hasWarning |-> hasWarning, warningMessage |-> warningMessage ]

MkEdge(id, source, target) ==
    [id |-> id, source |-> source, target |-> target, animated |-> TRUE]

SalesId == <<"sales", 1>>

OrderId == <<"order", 1>>

ThankYouId == <<"thankyou", 1>>

initialNodes ==
    << MkNode(SalesId, "salesPage", Label("Sales Page", NoNum), 50, Undefined, Undefined),
       MkNode(OrderId, "orderPage", Label("Order Page", NoNum), 300, Undefined, Undefined),
       MkNode(ThankYouId, "thankYou", Label("Thank You", NoNum), 550, Undefined, Undefined) >>

initialEdges ==
    << MkEdge(<<"e", SalesId, OrderId>>, SalesId, OrderId),
       MkEdge(<<"e", OrderId, ThankYouId>>, OrderId, ThankYouId) >>

createLabelCounter ==
    [ salesPage |-> 1, orderPage |-> 1, upsell |-> 0, downsell |-> 0, thankYou |-> 1 ]

----------------------------------------------------------------------------
(* Sequences *)

RECURSIVE SelectSeqBy(_, _)
\* array.filter, written without a lambda: keep the elements in the set keep
SelectSeqBy(s, keep) ==
    IF s = <<>> THEN <<>>
    ELSE IF Head(s) \in keep THEN <<Head(s)>> \o SelectSeqBy(Tail(s), keep)
         ELSE SelectSeqBy(Tail(s), keep)

Range(s) == {s[i] : i \in 1..Len(s)}

Min(a, b) == IF a < b THEN a ELSE b

Max(a, b) == IF a > b THEN a ELSE b

\* array.slice(0, n) for n >= 0
Slice0(s, n) == SubSeq(s, 1, Min(n, Len(s)))

----------------------------------------------------------------------------
(* JSON.  A serialized object is the set of its <<key, value>> members;    *)
(* JSON.stringify leaves out the members whose value is undefined, and a   *)
(* member that is missing reads back as undefined.                         *)

NodeKeys == {"id", "nodeType", "label", "buttonLabel", "position",
             "hasWarning", "warningMessage"}

IsUndefined(key, value) ==
    \/ key \in {"hasWarning", "warningMessage"} /\ value = Undefined
    \/ key = "label" /\ value = NoLabel

StringifyNode(n) ==
    {<<k, n[k]>> : k \in {kk \in NodeKeys : ~IsUndefined(kk, n[kk])}}

Member(json, key) == CHOOSE m \in json : m[1] = key

HasMember(json, key) == \E m \in json : m[1] = key

ParseNode(json) ==
    [ id |-> Member(json, "id")[2],
      nodeType |-> Member(json, "nodeType")[2],
      label |-> IF HasMember(json, "label") THEN Member(json, "label")[2] ELSE NoLabel,
      buttonLabel |-> Member(json, "buttonLabel")[2],
      position |-> Member(json, "position")[2],
      hasWarning |-> IF HasMember(json, "hasWarning")
                     THEN Member(json, "hasWarning")[2] ELSE Undefined,
      warningMessage |-> IF HasMember(json, "warningMessage")
                         THEN Member(json, "warningMessage")[2] ELSE Undefined ]

StringifyNodes(ns) == [i \in 1..Len(ns) |-> StringifyNode(ns[i])]

ParseNodes(js) == [i \in 1..Len(js) |-> ParseNode(js[i])]

\* an edge has no optional member
StringifyEdges(es) ==
    [i \in 1..Len(es) |-> <<es[i].id, es[i].source, es[i].target, es[i].animated>>]

ParseEdges(js) ==
    [i \in 1..Len(js) |->
        [id |-> js[i][1], source |-> js[i][2], target |-> js[i][3], animated |-> js[i][4]]]

\* A JSON text: kind "garbage" does not parse; kind "object" parses to an
\* object that has a nodes member iff hasNodes, an edges member iff hasEdges.
JsonText(kind, hasNodes, hasEdges, ns, es) ==
    [kind |-> kind, hasNodes |-> hasNodes, hasEdges |-> hasEdges,
     nodes |-> ns, edges |-> es]

\* JSON.stringify({nodes, edges})
Stringify(ns, es) ==
    JsonText("object", TRUE, TRUE, StringifyNodes(ns), StringifyEdges(es))

\* JSON.parse(JSON.stringify(x)), the deep copy used for history entries
CloneNodes(ns) == ParseNodes(StringifyNodes(ns))

CloneEdges(es) == ParseEdges(StringifyEdges(es))

HistoryState(ns, es) == [nodes |-> CloneNodes(ns), edges |-> CloneEdges(es)]

----------------------------------------------------------------------------
(* Validation engine: the updater of the validation effect *)

WarnNoOrder == "Sales page should connect to an Order page"

WarnMulti == "Sales page should have only one outgoing connection"

WarnOrphan == "This node is not connected to the funnel"

OutgoingCount(es, id) == Cardinality({i \in 1..Len(es) : es[i].source = id})

IncomingCount(es, id) == Cardinality({i \in 1..Len(es) : es[i].target = id})

\* the warning computed without the check for several outgoing edges
ComputeWarning_NoMulti(node, es) ==
    IF node.nodeType # "salesPage" /\ IncomingCount(es, node.id) = 0
    THEN <<"true", WarnOrphan>>
    ELSE IF node.nodeType = "salesPage" /\ OutgoingCount(es, node.id) = 0
    THEN <<"true", WarnNoOrder>>
    ELSE <<"false", "">>

\* the pair (hasWarning, warningMessage) the effect computes for one node
ComputeWarning(node, es) ==
    LET salesWarn ==
            IF node.nodeType = "salesPage"
            THEN IF OutgoingCount(es, node.id) = 0 THEN <<"true", WarnNoOrder>>
                 ELSE IF OutgoingCount(es, node.id) > 1 THEN <<"true", WarnMulti>>
                 ELSE <<"false", "">>
            ELSE <<"false", "">>
    IN  IF node.nodeType # "salesPage" /\ IncomingCount(es, node.id) = 0
        THEN <<"true", WarnOrphan>>
        ELSE salesWarn

ValidateNode(node, es) ==
    LET w == ComputeWarning(node, es)
    IN  IF node.hasWarning # w[1] \/ node.warningMessage # w[2]
        THEN [node EXCEPT !.hasWarning = w[1], !.warningMessage = w[2]]
        ELSE node

Validate(ns, es) == [i \in 1..Len(ns) |-> ValidateNode(ns[i], es)]

----------------------------------------------------------------------------
(* The component state as one record, and the effects of useFunnelStore    *)

Store ==
    [ nodes |-> nodes, edges |-> edges, labelCounts |-> labelCounts,
      isInitialized |-> isInitialized, history |-> history,
      currentIndex |-> currentIndex, currentIndexRef |-> currentIndexRef,
      isUndoRedoRef |-> isUndoRedoRef, isInitialLoadRef |-> isInitialLoadRef,
      isValidationUpdateRef |-> isValidationUpdateRef,
      isDraggingRef |-> isDraggingRef,
      dragDebounceTimerRef |-> dragDebounceTimerRef,
      timers |-> timers, storage |-> storage ]

\* useEffect(() => { currentIndexRef.current = currentIndex }, [currentIndex])
SyncIndexEffect(S) == [S EXCEPT !.currentIndexRef = S.currentIndex]

\* the updater without the size cap
PushHistory_Uncapped(S, entry) ==
    [S EXCEPT !.history = Append(Slice0(S.history, S.currentIndexRef + 1), entry),
              !.currentIndex = Len(Slice0(S.history, S.currentIndexRef + 1))]

\* the updater appending to the whole history, the undone entries included
PushHistory_NoSlice(S, entry) ==
    LET nextHistory == Append(S.history, entry)
    IN  IF Len(nextHistory) > MAX_HISTORY_SIZE
        THEN [S EXCEPT !.history = Tail(nextHistory),
                       !.currentIndex = MAX_HISTORY_SIZE - 1]
        ELSE [S EXCEPT !.history = nextHistory,
                       !.currentIndex = Len(nextHistory) - 1]

\* The setHistory updater shared by the snapshot and the timer callback:
\* drop the entries after currentIndexRef, append, enforce the cap.
PushHistory(S, entry) ==
    LET sliced == Slice0(S.history, S.currentIndexRef + 1)
        nextHistory == Append(sliced, entry)
    IN  IF Len(nextHistory) > MAX_HISTORY_SIZE
        THEN [S EXCEPT !.history = Tail(nextHistory),
                       !.currentIndex = MAX_HISTORY_SIZE - 1]
        ELSE [S EXCEPT !.history = nextHistory,
                       !.currentIndex = Len(nextHistory) - 1]

\* setTimeout returns a handle that no pending timer has
NewHandle(S) == CHOOSE h \in 1..(Cardinality(S.timers) + 1) :
                    \A t \in S.timers : t.handle # h

\* clearTimeout that leaves the timer pending
ClearTimeout_Keeps(ts, h) == ts

ClearTimeout(ts, h) == {t \in ts : t.handle # h}

\* the drag branch without clearTimeout
ArmDragTimer_NoClear(S) ==
    [S EXCEPT !.timers = S.timers \cup
                  {[handle |-> NewHandle(S), nodes |-> CloneNodes(S.nodes),
                    edges |-> CloneEdges(S.edges)]},
              !.dragDebounceTimerRef = NewHandle(S)]

\* the drag branch of the history effect: cancel the pending timer, capture
\* the state, arm a new timer
ArmDragTimer(S) ==
    LET cleared == IF S.dragDebounceTimerRef # 0
                   THEN ClearTimeout(S.timers, S.dragDebounceTimerRef)
                   ELSE S.timers
        S1 == [S EXCEPT !.timers = cleared]
        h == NewHandle(S1)
    IN  [S1 EXCEPT !.timers = cleared \cup
                        {[handle |-> h, nodes |-> CloneNodes(S.nodes),
                          edges |-> CloneEdges(S.edges)]},
                   !.dragDebounceTimerRef = h]

\* the branches on the refs with a replay flag that is never taken down
TrackHistory_KeepsFlag(S, entry) ==
    IF S.isInitialLoadRef
    THEN [S EXCEPT !.isInitialLoadRef = FALSE,
                   !.history = <<entry>>,
                   !.currentIndex = 0]
    ELSE IF S.isUndoRedoRef
    THEN S
    ELSE IF S.isValidationUpdateRef
    THEN [S EXCEPT !.isValidationUpdateRef = FALSE]
    ELSE IF S.isDraggingRef
    THEN ArmDragTimer(S)
    ELSE PushHistory(S, entry)

\* the history effect after the save: the branches on the refs
TrackHistory(S, entry) ==
    IF S.isInitialLoadRef
    THEN [S EXCEPT !.isInitialLoadRef = FALSE,
                   !.history = <<entry>>,
                   !.currentIndex = 0]
    ELSE IF S.isUndoRedoRef
    THEN [S EXCEPT !.isUndoRedoRef = FALSE]
    ELSE IF S.isValidationUpdateRef
    THEN [S EXCEPT !.isValidationUpdateRef = FALSE]
    ELSE IF S.isDraggingRef
    THEN ArmDragTimer(S)
    ELSE PushHistory(S, entry)

\* the history effect without the test of isInitialized
HistoryEffect_Unguarded(S) ==
    TrackHistory([S EXCEPT !.storage = Stringify(S.nodes, S.edges)],
                 HistoryState(S.nodes, S.edges))

\* useEffect(..., [nodes, edges, isInitialized]): save and track history
HistoryEffect(S) ==
    IF ~S.isInitialized THEN S
    ELSE TrackHistory([S EXCEPT !.storage = Stringify(S.nodes, S.edges)],
                      HistoryState(S.nodes, S.edges))

\* the validation effect without the mark on isValidationUpdateRef
ValidationEffect_Unmarked(S) ==
    IF ~S.isInitialized THEN S
    ELSE [S EXCEPT !.nodes = Validate(S.nodes, S.edges)]

\* useEffect(..., [edges, isInitialized]): recompute the warnings
ValidationEffect(S) ==
    IF ~S.isInitialized THEN S
    ELSE [S EXCEPT !.isValidationUpdateRef = TRUE,
                   !.nodes = Validate(S.nodes, S.edges)]

\* An effect runs in a commit only when one of its dependencies changed.
RunSyncIndex(run, S) == IF run THEN SyncIndexEffect(S) ELSE S

RunHistory(run, S) == IF run THEN HistoryEffect(S) ELSE S

RunValidation(run, S) == IF run THEN ValidationEffect(S) ELSE S

\* what a commit leaves: the store after its effects, the state it rendered,
\* and whether the validation effect queued a new nodes array
Committed(S, run, committed) ==
    [store |-> RunValidation(run, S), committed |-> committed,
     nodesNew |-> run /\ S.isInitialized]

\* One commit: the effects whose dependencies changed run in the order of
\* their declaration.
CommitPass(prev, S, nodesNew, edgesNew) ==
    LET initNew == S.isInitialized # prev.isInitialized
    IN  Committed(RunHistory(nodesNew \/ edgesNew \/ initNew,
                      RunSyncIndex(S.currentIndex # prev.currentIndex, S)),
                  edgesNew \/ initNew, S)

\* the commit that the updates queued by the effects of commit p cause
NextPass(p) == CommitPass(p.committed, p.store, p.nodesNew, FALSE)

\* Commits until no state update is pending.  The first pass may queue a
\* history update and the validation rewrite; the second pass may queue a
\* history update; in the third only the index ref is brought up to date.
Settle(prev, S, nodesNew, edgesNew) ==
    NextPass(NextPass(CommitPass(prev, S, nodesNew, edgesNew))).store

Install(S) ==
    /\ nodes' = S.nodes
    /\ edges' = S.edges
    /\ labelCounts' = S.labelCounts
    /\ isInitialized' = S.isInitialized
    /\ history' = S.history
    /\ currentIndex' = S.currentIndex
    /\ currentIndexRef' = S.currentIndexRef
    /\ isUndoRedoRef' = S.isUndoRedoRef
    /\ isInitialLoadRef' = S.isInitialLoadRef
    /\ isValidationUpdateRef' = S.isValidationUpdateRef
    /\ isDraggingRef' = S.isDraggingRef
    /\ dragDebounceTimerRef' = S.dragDebounceTimerRef
    /\ timers' = S.timers
    /\ storage' = S.storage

----------------------------------------------------------------------------
(* Label counters *)

RECURSIVE ReconstructCounts(_, _, _)
\* The forEach of the load effect (floorAtOne = TRUE, it has the else branch
\* Math.max(count, 1)) and of importFunnel (floorAtOne = FALSE).
ReconstructCounts(counts, ns, floorAtOne) ==
    IF ns = <<>> THEN counts
    ELSE LET node == Head(ns)
             c == counts[node.nodeType]
             next == IF node.label.num # NoNum
                     THEN IF node.label.num >= c
                          THEN [counts EXCEPT ![node.nodeType] = node.label.num]
                          ELSE counts
                     ELSE IF floorAtOne
                          THEN [counts EXCEPT ![node.nodeType] = Max(c, 1)]
                          ELSE counts
         IN  ReconstructCounts(next, Tail(ns), floorAtOne)

\* node.data.label.match(...) throws a TypeError when label is undefined
LabelMatchThrows(ns) == \E i \in 1..Len(ns) : ns[i].label = NoLabel

\* the label without the numeric suffix that upsells and downsells always get
NewLabel_BareFirst(nodeType, newCount) ==
    IF newCount > 1
    THEN Label(NODE_TYPE_CONFIG[nodeType].label, newCount)
    ELSE Label(NODE_TYPE_CONFIG[nodeType].label, NoNum)

\* the label addNode builds for the new count
NewLabel(nodeType, newCount) ==
    IF nodeType \in {"upsell", "downsell"}
    THEN Label(NODE_TYPE_CONFIG[nodeType].label, newCount)
    ELSE IF newCount > 1
    THEN Label(NODE_TYPE_CONFIG[nodeType].label, newCount)
    ELSE Label(NODE_TYPE_CONFIG[nodeType].label, NoNum)

----------------------------------------------------------------------------
(* Mount *)

Absent == JsonText("absent", FALSE, FALSE, <<>>, <<>>)

Garbage == JsonText("garbage", FALSE, FALSE, <<>>, <<>>)

\* a funnel saved by an earlier session: a sales page and the second upsell
SavedNodes ==
    << MkNode(SalesId, "salesPage", Label("Sales Page", NoNum), 50, "true", WarnNoOrder),
       MkNode(<<"upsell", 0>>, "upsell", Label("Upsell", 2), 0, "true", WarnOrphan) >>

StoredTexts == {Absent, Garbage, Stringify(SavedNodes, <<>>)}

\* useEffect(..., []): load from localStorage on mount
LoadEffect(S) ==
    LET saved == S.storage
        default == [S EXCEPT !.nodes = initialNodes, !.edges = initialEdges,
                             !.isInitialized = TRUE]
    IN  IF saved.kind = "absent" THEN default
        ELSE IF saved.kind = "garbage" \/ ~saved.hasNodes THEN default
        ELSE IF LabelMatchThrows(ParseNodes(saved.nodes)) THEN default
        ELSE [S EXCEPT !.nodes = ParseNodes(saved.nodes),
                       !.edges = IF saved.hasEdges THEN ParseEdges(saved.edges)
                                 ELSE Undefined,
                       !.labelCounts = ReconstructCounts(createLabelCounter,
                                            ParseNodes(saved.nodes), TRUE),
                       !.isInitialized = TRUE]

\* what the last handler was, whether it went through, and the case of its
\* input that the properties distinguish
Result(op, ok, input) == [op |-> op, ok |-> ok, input |-> input]

\* The effects of the first commit other than the load effect: they see the
\* state of the first render (nothing loaded, isInitialized false).
FirstCommit(S) == RunValidation(TRUE, RunHistory(TRUE, RunSyncIndex(TRUE, S)))

\* The first commit as a whole.  The load effect is declared before the
\* history effect, so it reads localStorage as the session before left it;
\* its state updates are queued behind whatever the other effects queue.
MountEffects(S) ==
    [LoadEffect([FirstCommit(S) EXCEPT !.storage = S.storage])
        EXCEPT !.storage = FirstCommit(S).storage]

\* The stored object has nodes that load but no edges member: the load
\* effect passes undefined to setEdges, and the first run of the history
\* effect throws at JSON.parse(JSON.stringify(edges)).
CloneOfEdgesThrows(saved) ==
    /\ saved.kind = "object"
    /\ saved.hasNodes
    /\ ~saved.hasEdges
    /\ ~LabelMatchThrows(ParseNodes(saved.nodes))

\* An error thrown by an effect is caught by no error boundary: React
\* unmounts the application, and no handler runs any more.
Mount ==
    /\ ~isInitialized
    /\ IF CloneOfEdgesThrows(storage)
       THEN /\ Install(MountEffects(Store))
            /\ last' = Result("mount", FALSE, "crashed")
       ELSE /\ Install(Settle(Store, MountEffects(Store), TRUE, TRUE))
            /\ last' = Result("mount", TRUE, "")
    /\ now' = now

----------------------------------------------------------------------------
(* Handlers.  The canvas renders the flow and the toolbar only once        *)
(* isInitialized holds, so no handler runs before.                         *)

NodeIdOf(nodeType, t) == <<nodeType, t>>

\* addNode that leaves the counter of the kind where it was
addNode_CounterKept(nodeType, position, t) ==
    /\ isInitialized
    /\ LET newCount == labelCounts[nodeType] + 1
           newNode == MkNode(NodeIdOf(nodeType, t), nodeType,
                             NewLabel(nodeType, newCount), position,
                             Undefined, Undefined)
           S == [Store EXCEPT !.nodes = Append(nodes, newNode)]
       IN  Install(Settle(Store, S, TRUE, FALSE))
    /\ now' = t
    /\ last' = Result("addNode", TRUE, "")

addNode(nodeType, position, t) ==
    /\ isInitialized
    /\ LET newCount == labelCounts[nodeType] + 1
           newNode == MkNode(NodeIdOf(nodeType, t), nodeType,
                             NewLabel(nodeType, newCount), position,
                             Undefined, Undefined)
           S == [Store EXCEPT !.labelCounts = [labelCounts EXCEPT ![nodeType] = newCount],
                              !.nodes = Append(nodes, newNode)]
       IN  Install(Settle(Store, S, TRUE, FALSE))
    /\ now' = t
    /\ last' = Result("addNode", TRUE, "")

\* deleteNode that removes the node and leaves every edge
deleteNode_NodesOnly(nodeId) ==
    /\ isInitialized
    /\ LET S == [Store EXCEPT
                   !.nodes = SelectSeqBy(nodes, {n \in Range(nodes) : n.id # nodeId})]
       IN  Install(Settle(Store, S, TRUE, FALSE))
    /\ now' = now
    /\ last' = Result("deleteNode", TRUE, "")

\* deleteNode keeping the edges whose target is the node
deleteNode_KeepIncoming(nodeId) ==
    /\ isInitialized
    /\ LET S == [Store EXCEPT
                   !.nodes = SelectSeqBy(nodes, {n \in Range(nodes) : n.id # nodeId}),
                   !.edges = SelectSeqBy(edges, {e \in Range(edges) :
                                    e.source # nodeId})]
       IN  Install(Settle(Store, S, TRUE, TRUE))
    /\ now' = now
    /\ last' = Result("deleteNode", TRUE, "")

deleteNode(nodeId) ==
    /\ isInitialized
    /\ LET S == [Store EXCEPT
                   !.nodes = SelectSeqBy(nodes, {n \in Range(nodes) : n.id # nodeId}),
                   !.edges = SelectSeqBy(edges, {e \in Range(edges) :
                                    e.source # nodeId /\ e.target # nodeId})]
       IN  Install(Settle(Store, S, TRUE, TRUE))
    /\ now' = now
    /\ last' = Result("deleteNode", TRUE, "")

deleteEdge(edgeId) ==
    /\ isInitialized
    /\ LET S == [Store EXCEPT
                   !.edges = SelectSeqBy(edges, {e \in Range(edges) : e.id # edgeId})]
       IN  Install(Settle(Store, S, FALSE, TRUE))
    /\ now' = now
    /\ last' = Result("deleteEdge", TRUE, "")

\* addEdge of the flow library: the same array when the connection exists
\* already, else the array with one more edge
ConnectionExists(es, source, target) ==
    \E i \in 1..Len(es) : es[i].source = source /\ es[i].target = target

addEdge(source, target, es) ==
    IF ConnectionExists(es, source, target) THEN es
    ELSE Append(es, MkEdge(<<"xy", source, target>>, source, target))

\* onConnect looking the kind up under a misspelt name
SourceIsThankYou_Misspelt(ns, source) ==
    \E i \in 1..Len(ns) : ns[i].id = source /\ ns[i].nodeType = "thankyou"

SourceIsThankYou(ns, source) ==
    \E i \in 1..Len(ns) :
        /\ ns[i].id = source
        /\ \A j \in 1..(i - 1) : ns[j].id # source
        /\ ns[i].nodeType = "thankYou"

onConnect(source, target) ==
    /\ isInitialized
    /\ IF SourceIsThankYou(nodes, source)
       THEN /\ UNCHANGED <<nodes, edges, labelCounts, isInitialized, history,
                           currentIndex, currentIndexRef, isUndoRedoRef,
                           isInitialLoadRef, isValidationUpdateRef, isDraggingRef,
                           dragDebounceTimerRef, timers, storage>>
            /\ last' = Result("connect", FALSE, "forbidden")
       ELSE LET S == [Store EXCEPT !.edges = addEdge(source, target, edges)]
            IN  /\ Install(Settle(Store, S, FALSE,
                                  ~ConnectionExists(edges, source, target)))
                /\ last' = Result("connect", ~ConnectionExists(edges, source, target), "")
    /\ now' = now

\* applyNodeChanges for one change of the flow library
ApplyNodeChange(change, ns) ==
    IF change.type = "position"
    THEN [i \in 1..Len(ns) |->
            IF ns[i].id = change.id THEN [ns[i] EXCEPT !.position = change.position]
            ELSE ns[i]]
    ELSE IF change.type = "remove"
    THEN SelectSeqBy(ns, {n \in Range(ns) : n.id # change.id})
    ELSE ns

\* onNodesChange that never enters the dragging state
onNodesChange_NeverDragging(change) ==
    /\ isInitialized
    /\ LET S == [Store EXCEPT !.isDraggingRef = FALSE,
                              !.nodes = ApplyNodeChange(change, nodes)]
       IN  Install(Settle(Store, S, TRUE, FALSE))
    /\ now' = now
    /\ last' = Result(change.type, TRUE, "")

onNodesChange(change) ==
    /\ isInitialized
    /\ LET hasPositionChange == change.type = "position"
           S == [Store EXCEPT !.isDraggingRef = hasPositionChange,
                              !.nodes = ApplyNodeChange(change, nodes)]
       IN  Install(Settle(Store, S, TRUE, FALSE))
    /\ now' = now
    /\ last' = Result(change.type, TRUE, "")

\* the callback of the drag debounce timer
TimerFire(t) ==
    /\ t \in timers
    /\ LET S == [Store EXCEPT !.isDraggingRef = FALSE,
                              !.dragDebounceTimerRef = 0,
                              !.timers = timers \ {t}]
       IN  Install(Settle(Store,
                          PushHistory(S, [nodes |-> t.nodes, edges |-> t.edges]),
                          FALSE, FALSE))
    /\ now' = now
    /\ last' = Result("timer", TRUE, "")

\* undo marking the next write as a replay before it looks at the index
undo_MarkingAtBound ==
    /\ isInitialized
    /\ IF currentIndex <= 0
       THEN /\ isUndoRedoRef' = TRUE
            /\ UNCHANGED <<nodes, edges, labelCounts, isInitialized, history,
                           currentIndex, currentIndexRef,
                           isInitialLoadRef, isValidationUpdateRef, isDraggingRef,
                           dragDebounceTimerRef, timers, storage>>
            /\ last' = Result("undo", FALSE, "")
       ELSE LET newIndex == currentIndex - 1
                S0 == [Store EXCEPT !.isUndoRedoRef = TRUE, !.currentIndex = newIndex]
                found == (newIndex + 1) \in DOMAIN history
                S == IF found
                     THEN [S0 EXCEPT !.nodes = CloneNodes(history[newIndex + 1].nodes),
                                     !.edges = CloneEdges(history[newIndex + 1].edges)]
                     ELSE S0
            IN  /\ Install(Settle(Store, S, found, found))
                /\ last' = Result("undo", TRUE, "")
    /\ now' = now

undo ==
    /\ isInitialized
    /\ IF currentIndex <= 0
       THEN /\ UNCHANGED <<nodes, edges, labelCounts, isInitialized, history,
                           currentIndex, currentIndexRef, isUndoRedoRef,
                           isInitialLoadRef, isValidationUpdateRef, isDraggingRef,
                           dragDebounceTimerRef, timers, storage>>
            /\ last' = Result("undo", FALSE, "")
       ELSE LET newIndex == currentIndex - 1
                S0 == [Store EXCEPT !.isUndoRedoRef = TRUE, !.currentIndex = newIndex]
                found == (newIndex + 1) \in DOMAIN history
                S == IF found
                     THEN [S0 EXCEPT !.nodes = CloneNodes(history[newIndex + 1].nodes),
                                     !.edges = CloneEdges(history[newIndex + 1].edges)]
                     ELSE S0
            IN  /\ Install(Settle(Store, S, found, found))
                /\ last' = Result("undo", TRUE, "")
    /\ now' = now

\* redo without the test of the index against the length of the history
redo_Unchecked ==
    /\ isInitialized
    /\ LET newIndex == currentIndex + 1
           S0 == [Store EXCEPT !.isUndoRedoRef = TRUE, !.currentIndex = newIndex]
           found == (newIndex + 1) \in DOMAIN history
           S == IF found
                THEN [S0 EXCEPT !.nodes = CloneNodes(history[newIndex + 1].nodes),
                                !.edges = CloneEdges(history[newIndex + 1].edges)]
                ELSE S0
       IN  /\ Install(Settle(Store, S, found, found))
           /\ last' = Result("redo", found, "")
    /\ now' = now

redo ==
    /\ isInitialized
    /\ IF currentIndex >= Len(history) - 1
       THEN /\ UNCHANGED <<nodes, edges, labelCounts, isInitialized, history,
                           currentIndex, currentIndexRef, isUndoRedoRef,
                           isInitialLoadRef, isValidationUpdateRef, isDraggingRef,
                           dragDebounceTimerRef, timers, storage>>
            /\ last' = Result("redo", FALSE, "")
       ELSE LET newIndex == currentIndex + 1
                S0 == [Store EXCEPT !.isUndoRedoRef = TRUE, !.currentIndex = newIndex]
                found == (newIndex + 1) \in DOMAIN history
                S == IF found
                     THEN [S0 EXCEPT !.nodes = CloneNodes(history[newIndex + 1].nodes),
                                     !.edges = CloneEdges(history[newIndex + 1].edges)]
                     ELSE S0
            IN  /\ Install(Settle(Store, S, found, found))
                /\ last' = Result("redo", TRUE, "")
    /\ now' = now

\* the messages of getValidationErrors: the text of the orphan message varies
\* with the number of orphans, that of a sales page message with its label
OrphanError(n) == [kind |-> "orphan", count |-> n, label |-> NoLabel]

MissingThankYouError == [kind |-> "noThankYou", count |-> 0, label |-> NoLabel]

NoOutgoingError(label) == [kind |-> "noOutgoing", count |-> 0, label |-> label]

\* getValidationErrors without the check for a thank-you page
getValidationErrors_NoThankYouCheck ==
    LET orphanNodes == {i \in 1..Len(nodes) :
                           /\ nodes[i].nodeType # "salesPage"
                           /\ IncomingCount(edges, nodes[i].id) = 0}
        unconnected == SelectSeqBy(nodes, {n \in Range(nodes) :
                           /\ n.nodeType = "salesPage"
                           /\ OutgoingCount(edges, n.id) = 0})
    IN  (IF orphanNodes # {} THEN <<OrphanError(Cardinality(orphanNodes))>> ELSE <<>>)
        \o [i \in 1..Len(unconnected) |-> NoOutgoingError(unconnected[i].label)]

getValidationErrors ==
    LET orphanNodes == {i \in 1..Len(nodes) :
                           /\ nodes[i].nodeType # "salesPage"
                           /\ IncomingCount(edges, nodes[i].id) = 0}
        hasThankYou == \E i \in 1..Len(nodes) : nodes[i].nodeType = "thankYou"
        unconnected == SelectSeqBy(nodes, {n \in Range(nodes) :
                           /\ n.nodeType = "salesPage"
                           /\ OutgoingCount(edges, n.id) = 0})
    IN  (IF orphanNodes # {} THEN <<OrphanError(Cardinality(orphanNodes))>> ELSE <<>>)
        \o (IF ~hasThankYou /\ Len(nodes) > 0 THEN <<MissingThankYouError>> ELSE <<>>)
        \o [i \in 1..Len(unconnected) |-> NoOutgoingError(unconnected[i].label)]

canUndo == currentIndex > 0

canRedo == currentIndex < Len(history) - 1

\* JSON.stringify({nodes, edges}, null, 2)
exportFunnel == Stringify(nodes, edges)

\* importFunnel rejecting only a document that lacks both fields
ImportOutcome_BothMissing(S, json) ==
    IF json.kind # "object" \/ (~json.hasNodes /\ ~json.hasEdges)
    THEN [store |-> S, ok |-> FALSE, wrote |-> FALSE]
    ELSE LET ns == ParseNodes(json.nodes)
             es == ParseEdges(json.edges)
         IN  [store |-> [S EXCEPT !.nodes = ns, !.edges = es,
                                  !.history = <<HistoryState(ns, es)>>,
                                  !.currentIndex = 0,
                                  !.labelCounts =
                                      ReconstructCounts(createLabelCounter, ns, FALSE)],
              ok |-> TRUE, wrote |-> TRUE]

\* What importFunnel has queued when it returns, and what it returns.  The
\* writes of nodes, edges, history and currentIndex come before the loop
\* over the labels, so they stay queued when that loop throws.
ImportOutcome(S, json) ==
    IF json.kind # "object" \/ ~json.hasNodes \/ ~json.hasEdges
    THEN [store |-> S, ok |-> FALSE, wrote |-> FALSE]
    ELSE LET ns == ParseNodes(json.nodes)
             es == ParseEdges(json.edges)
             S1 == [S EXCEPT !.nodes = ns, !.edges = es,
                             !.history = <<HistoryState(ns, es)>>,
                             !.currentIndex = 0]
         IN  IF LabelMatchThrows(ns)
             THEN [store |-> S1, ok |-> FALSE, wrote |-> TRUE]
             ELSE [store |-> [S1 EXCEPT !.labelCounts =
                                 ReconstructCounts(createLabelCounter, ns, FALSE)],
                   ok |-> TRUE, wrote |-> TRUE]

ImportCase(json) ==
    IF json.kind # "object" THEN "garbage"
    ELSE IF ~json.hasNodes \/ ~json.hasEdges THEN "missingField"
    ELSE "document"

importFunnel(json) ==
    /\ isInitialized
    /\ LET out == ImportOutcome(Store, json)
       IN  /\ Install(Settle(Store, out.store, out.wrote, out.wrote))
           /\ last' = Result("import", out.ok, ImportCase(json))
    /\ now' = now

\* clearFunnel that resets every counter to 0
clearFunnel_ZeroCounters ==
    /\ isInitialized
    /\ LET S == [Store EXCEPT !.nodes = <<>>, !.edges = <<>>,
                              !.labelCounts = [ty \in NodeType |-> 0],
                              !.history = <<[nodes |-> <<>>, edges |-> <<>>]>>,
                              !.currentIndex = 0]
       IN  Install(Settle(Store, S, TRUE, TRUE))
    /\ now' = now
    /\ last' = Result("clear", TRUE, "")

clearFunnel ==
    /\ isInitialized
    /\ LET S == [Store EXCEPT !.nodes = <<>>, !.edges = <<>>,
                              !.labelCounts = createLabelCounter,
                              !.history = <<[nodes |-> <<>>, edges |-> <<>>]>>,
                              !.currentIndex = 0]
       IN  Install(Settle(Store, S, TRUE, TRUE))
    /\ now' = now
    /\ last' = Result("clear", TRUE, "")

----------------------------------------------------------------------------
(* Inputs *)

\* an id that no node and no edge carries
GhostId == <<"ghost", 0>>

\* the kinds dropped from the palette: one with a bare first label that must
\* have one outgoing edge, one numbered from 1, one that forbids outgoing edges
AddKinds == {"salesPage", "upsell", "thankYou"}

NodeIdInputs == {nodes[i].id : i \in 1..Len(nodes)} \cup {GhostId}

EdgeIdInputs == {edges[i].id : i \in 1..Len(edges)} \cup {GhostId}

\* the node the pointer works on: the one drawn on top
PointerIds == IF nodes = <<>> THEN {} ELSE {nodes[Len(nodes)].id}

PositionChanges ==
    {[type |-> "position", id |-> id, position |-> p] :
        id \in PointerIds, p \in 0..MaxPos}

OtherChanges ==
    {[type |-> ty, id |-> id, position |-> 0] :
        ty \in {"select", "remove"}, id \in PointerIds}

\* an upsell whose data has no label
UnlabelledNodes ==
    << [MkNode(<<"upsell", 0>>, "upsell", NoLabel, 0, Undefined, Undefined)
            EXCEPT !.label = NoLabel] >>

\* a funnel written by hand: numbered labels, no warning fields
HandWrittenNodes ==
    << MkNode(SalesId, "salesPage", Label("Sales Page", NoNum), 50, Undefined, Undefined),
       MkNode(<<"downsell", 0>>, "downsell", Label("Downsell", 3), 0, Undefined, Undefined) >>

HandWrittenEdges ==
    << MkEdge(<<"e", SalesId, <<"downsell", 0>>>>, SalesId, <<"downsell", 0>>) >>

MissingFieldTexts ==
    { JsonText("object", FALSE, TRUE, <<>>, StringifyEdges(HandWrittenEdges)),
      JsonText("object", TRUE, FALSE, StringifyNodes(HandWrittenNodes), <<>>),
      JsonText("object", FALSE, FALSE, <<>>, <<>>) }

ImportTexts ==
    {Garbage} \cup MissingFieldTexts \cup
    { Stringify(HandWrittenNodes, HandWrittenEdges),
      Stringify(UnlabelledNodes, <<>>),
      exportFunnel }

----------------------------------------------------------------------------
(* Specification: every handler, in any order, MaxOps calls at most *)

NoMark == [nodes |-> <<>>, edges |-> <<>>, history |-> <<>>, currentIndex |-> -1]

\* phase: where the scenario stands; k: mutations made; u, r: calls of undo,
\* of redo (or position changes of a burst); mark: the state the property
\* compares with
NoScen == [phase |-> "free", k |-> 0, u |-> 0, r |-> 0, mark |-> NoMark]

InitStore ==
    /\ nodes = <<>>
    /\ edges = <<>>
    /\ labelCounts = createLabelCounter
    /\ isInitialized = FALSE
    /\ history = <<>>
    /\ currentIndex = -1
    /\ currentIndexRef = -1
    /\ isUndoRedoRef = FALSE
    /\ isInitialLoadRef = TRUE
    /\ isValidationUpdateRef = FALSE
    /\ isDraggingRef = FALSE
    /\ dragDebounceTimerRef = 0
    /\ timers = {}
    /\ now = 0
    /\ last = Result("none", TRUE, "")

Init ==
    /\ InitStore
    /\ storage \in {Absent, Garbage}
    /\ opCount = 0
    /\ scen = NoScen

HasBudget == opCount < MaxOps

Spend == opCount' = opCount + 1 /\ UNCHANGED scen

DoMount == Mount /\ UNCHANGED <<opCount, scen>>

DoAddNode ==
    /\ HasBudget
    /\ Len(nodes) < MaxNodes
    /\ \E ty \in AddKinds, t \in now..MaxNow : addNode(ty, 0, t)
    /\ Spend

DoDeleteNode ==
    /\ HasBudget
    /\ \E id \in NodeIdInputs : deleteNode(id)
    /\ Spend

DoDeleteEdge ==
    /\ HasBudget
    /\ \E id \in EdgeIdInputs : deleteEdge(id)
    /\ Spend

DoConnect ==
    /\ HasBudget
    /\ \E s \in NodeIdInputs, t \in NodeIdInputs : onConnect(s, t)
    /\ Spend

DoDrag ==
    /\ HasBudget
    /\ \E c \in PositionChanges : onNodesChange(c)
    /\ Spend

DoNodesChange ==
    /\ HasBudget
    /\ \E c \in OtherChanges : onNodesChange(c)
    /\ Spend

DoTimerFire == \E t \in timers : TimerFire(t) /\ UNCHANGED <<opCount, scen>>

DoUndo ==
    /\ HasBudget
    /\ undo
    /\ Spend

DoRedo ==
    /\ HasBudget
    /\ redo
    /\ Spend

DoImport ==
    /\ HasBudget
    /\ \E json \in ImportTexts : importFunnel(json)
    /\ Spend

DoClear ==
    /\ HasBudget
    /\ clearFunnel
    /\ Spend

Next ==
    \/ DoMount
    \/ DoAddNode
    \/ DoDeleteNode
    \/ DoDeleteEdge
    \/ DoConnect
    \/ DoDrag
    \/ DoNodesChange
    \/ DoTimerFire
    \/ DoUndo
    \/ DoRedo
    \/ DoImport
    \/ DoClear

Spec == Init /\ [][Next]_vars

TypeOK ==
    /\ isInitialized \in BOOLEAN
    /\ currentIndex \in -1..(MAX_HISTORY_SIZE - 1)
    /\ Len(history) <= MAX_HISTORY_SIZE

----------------------------------------------------------------------------
(* Properties of Spec *)

\* the history after one more entry was recorded at index idx of h
Pushed(h, idx, entry) ==
    LET nextHistory == Append(Slice0(h, idx + 1), entry)
    IN  IF Len(nextHistory) > MAX_HISTORY_SIZE THEN Tail(nextHistory) ELSE nextHistory

ImportStep == \E json \in ImportTexts : importFunnel(json)

\* C4: when importFunnel returns false, the nodes, the edges, the label
\* counters, the history and currentIndex are what they were before the call.
FailedImportIsAtomic ==
    [][(last'.op = "import" /\ ~last'.ok /\ ImportStep)
        => UNCHANGED <<nodes, edges, labelCounts, history, currentIndex>>]_vars

\* C5: importFunnel of a document without a nodes field or without an edges
\* field returns false and changes nothing of the store.
MissingFieldRejected ==
    [][\A json \in MissingFieldTexts :
          (last'.op = "import" /\ importFunnel(json))
            => /\ ~last'.ok
               /\ UNCHANGED <<nodes, edges, labelCounts, isInitialized, history,
                              currentIndex, currentIndexRef, isUndoRedoRef,
                              isInitialLoadRef, isValidationUpdateRef,
                              isDraggingRef, dragDebounceTimerRef, timers,
                              storage>>]_vars

\* C5 witness: a document lacking a field was rejected by a store that has a
\* funnel and a history to lose.
MissingFieldRejectedWitness ==
    /\ last.op = "import" /\ last.input = "missingField" /\ ~last.ok
    /\ Len(nodes) >= 3 /\ Len(history) >= 2

\* C6: after a successful import has settled the history is the single
\* entry of the imported state, currentIndex is 0, canUndo and canRedo are
\* false.
ImportResetsHistory ==
    (last.op = "import" /\ last.ok)
        => /\ Len(history) = 1
           /\ history[1].edges = edges
           /\ currentIndex = 0
           /\ ~canUndo /\ ~canRedo

\* C7: after clearFunnel has settled, nodes and edges are empty, the counters
\* are the seed, the history is one empty entry, currentIndex is 0.
ClearResetsEverything ==
    last.op = "clear"
        => /\ nodes = <<>> /\ edges = <<>>
           /\ labelCounts = createLabelCounter
           /\ history = <<[nodes |-> <<>>, edges |-> <<>>]>>
           /\ currentIndex = 0
           /\ ~canUndo

\* the kind of the node with this id forbids outgoing edges
SourceForbidsOutgoing(source) ==
    \E i \in 1..Len(nodes) :
        nodes[i].id = source /\ ~NODE_TYPE_CONFIG[nodes[i].nodeType].canHaveOutgoing

\* C8: connect from a node whose kind has canHaveOutgoing = false changes
\* neither the edges, the nodes, the history nor currentIndex, whatever the
\* target.
ForbiddenConnectionIsNoOp ==
    [][\A s \in NodeIdInputs, t \in NodeIdInputs :
          (last'.op = "connect" /\ SourceForbidsOutgoing(s) /\ onConnect(s, t))
            => UNCHANGED <<edges, nodes, history, currentIndex>>]_vars

\* C8 witness: a connection from a Thank You node was asked for and refused
\* while the node has no outgoing edge.
ForbiddenConnectionWitness ==
    /\ last.op = "connect" /\ last.input = "forbidden"
    /\ \E i \in 1..Len(nodes) :
          nodes[i].nodeType = "thankYou" /\ OutgoingCount(edges, nodes[i].id) = 0

\* C9: importing the export of any reachable state succeeds and gives the
\* same nodes and edges, with the counters reconstructed from the labels.
ExportImportRoundTrip ==
    [][(last'.op = "import" /\ importFunnel(exportFunnel))
        => /\ last'.ok
           /\ nodes' = nodes
           /\ edges' = edges
           /\ labelCounts' = ReconstructCounts(createLabelCounter, nodes, FALSE)]_vars

\* a step of deleteNode, of deleteEdge, or of a connect that added an edge
EdgeMutationStep ==
    /\ opCount' = opCount + 1
    /\ \/ last'.op \in {"deleteNode", "deleteEdge"}
       \/ last'.op = "connect" /\ last'.ok

\* C10: a mutation that writes the edges outside a drag records exactly one
\* history entry (the entries up to currentIndex are kept, one entry with
\* the new edges follows, nothing else), although the validation pass it
\* triggers rewrites the nodes; and validating the settled state again
\* gives the same warnings.
ValidationNeverRecorded ==
    [][(EdgeMutationStep /\ ~isDraggingRef)
        => /\ Len(history') >= 1
           /\ history' = Pushed(history, currentIndex, history'[Len(history')])
           /\ history'[Len(history')].edges = edges'
           /\ currentIndex' = Len(history') - 1
           /\ (currentIndex = Len(history) - 1 /\ Len(history) < MAX_HISTORY_SIZE
                 => Len(history') = Len(history) + 1)
           /\ Validate(nodes', edges') = nodes']_vars

\* C10 witness: deleting an edge made the validation pass rewrite a warning,
\* and the history holds the initial entry and the entry of the deletion.
ValidationNeverRecordedWitness ==
    /\ last.op = "deleteEdge"
    /\ Len(edges) = 1
    /\ Len(history) = 2 /\ currentIndex = 1
    /\ \E i \in 1..Len(nodes) :
          /\ nodes[i].hasWarning = "true"
          /\ history[2].nodes[i].hasWarning = "false"

----------------------------------------------------------------------------
(* Specification SpecUndoRedo: k mutations outside any drag, then k calls  *)
(* of undo, then k calls of redo.                                          *)

InitUndoRedo ==
    /\ InitStore
    /\ storage = Absent
    /\ opCount = 0
    /\ scen = [NoScen EXCEPT !.phase = "mutate"]

Mutated ==
    scen' = [scen EXCEPT !.k = @ + 1,
                         !.mark = [NoMark EXCEPT !.nodes = nodes', !.edges = edges']]

CanMutate == scen.phase = "mutate" /\ scen.k < MaxMut

URMount == Mount /\ UNCHANGED <<opCount, scen>>

URAddNode ==
    /\ CanMutate
    /\ Len(nodes) < MaxNodes
    /\ \E ty \in AddKinds, t \in now..MaxNow : addNode(ty, 0, t)
    /\ Mutated /\ UNCHANGED opCount

URDeleteNode ==
    /\ CanMutate
    /\ \E id \in NodeIdInputs : deleteNode(id)
    /\ Mutated /\ UNCHANGED opCount

URDeleteEdge ==
    /\ CanMutate
    /\ \E id \in EdgeIdInputs : deleteEdge(id)
    /\ Mutated /\ UNCHANGED opCount

URConnect ==
    /\ CanMutate
    /\ \E s \in NodeIdInputs, t \in NodeIdInputs : onConnect(s, t)
    /\ Mutated /\ UNCHANGED opCount

URUndo ==
    /\ scen.phase \in {"mutate", "undo"}
    /\ scen.k >= 1 /\ scen.u < scen.k
    /\ undo
    /\ scen' = [scen EXCEPT !.phase = "undo", !.u = @ + 1]
    /\ UNCHANGED opCount

URRedo ==
    /\ scen.phase \in {"undo", "redo"}
    /\ scen.u = scen.k /\ scen.r < scen.k
    /\ redo
    /\ scen' = [scen EXCEPT !.phase = "redo", !.r = @ + 1]
    /\ UNCHANGED opCount

NextUndoRedo ==
    \/ URMount
    \/ URAddNode
    \/ URDeleteNode
    \/ URDeleteEdge
    \/ URConnect
    \/ URUndo
    \/ URRedo

SpecUndoRedo == InitUndoRedo /\ [][NextUndoRedo]_vars

\* C1: after k mutations, k calls of undo and k calls of redo, the nodes and
\* the edges are deep-equal to what they were after the last mutation.
UndoRedoInverse ==
    (scen.phase = "redo" /\ scen.r = scen.k)
        => nodes = scen.mark.nodes /\ edges = scen.mark.edges

----------------------------------------------------------------------------
(* Specification SpecCap: more than MAX_HISTORY_SIZE mutations outside any *)
(* drag.  To keep runs of this length countable the funnel is edited by    *)
(* the first CapEdits mutations; after them the mutations are deletions of *)
(* an id that does not exist, which write the same collections again, and  *)
(* connections that are refused or exist already.  scen.k counts the       *)
(* mutations that wrote state, scen.mark.history logs every entry          *)
(* recorded.                                                               *)

CapNodeIds == {OrderId, GhostId}

CapEdgeIds == {initialEdges[1].id, GhostId}

CapConnections == {<<SalesId, ThankYouId>>, <<ThankYouId, SalesId>>}

InitCap ==
    /\ InitStore
    /\ storage = Absent
    /\ opCount = 0
    /\ scen = [NoScen EXCEPT !.phase = "cap"]

CanCap == isInitialized /\ scen.k < MAX_HISTORY_SIZE + CapSlack

Editing == scen.k < CapEdits

\* when the mutation wrote state, its entry joins the log
Logged ==
    scen' = IF last'.ok
            THEN [scen EXCEPT !.k = @ + 1,
                              !.mark = [@ EXCEPT !.history =
                                          Append(@, history'[Len(history')])]]
            ELSE scen

CapMount ==
    /\ Mount
    /\ scen' = [scen EXCEPT !.mark = [@ EXCEPT !.history = history']]
    /\ UNCHANGED opCount

CapAddNode ==
    /\ CanCap /\ Editing
    /\ addNode("upsell", 0, now)
    /\ Logged /\ UNCHANGED opCount

CapDeleteNode ==
    /\ CanCap
    /\ \E id \in (IF Editing THEN CapNodeIds ELSE {GhostId}) : deleteNode(id)
    /\ Logged /\ UNCHANGED opCount

CapDeleteEdge ==
    /\ CanCap
    /\ \E id \in (IF Editing THEN CapEdgeIds ELSE {GhostId}) : deleteEdge(id)
    /\ Logged /\ UNCHANGED opCount

CapConnect ==
    /\ CanCap
    /\ \E c \in CapConnections :
          /\ Editing \/ ConnectionExists(edges, c[1], c[2])
                     \/ SourceIsThankYou(nodes, c[1])
          /\ onConnect(c[1], c[2])
    /\ Logged /\ UNCHANGED opCount

NextCap ==
    \/ CapMount
    \/ CapAddNode
    \/ CapDeleteNode
    \/ CapDeleteEdge
    \/ CapConnect

SpecCap == InitCap /\ [][NextCap]_vars

\* the last n elements of s
LastN(s, n) == SubSeq(s, Len(s) - n + 1, Len(s))

\* C2: after more than MAX_HISTORY_SIZE mutations the history holds
\* MAX_HISTORY_SIZE entries at most, they are the most recent ones recorded
\* (the oldest went first), and currentIndex is length - 1, that is
\* MAX_HISTORY_SIZE - 1, where the entry of the latest mutation is.
HistoryBound ==
    scen.k > MAX_HISTORY_SIZE
        => /\ Len(history) <= MAX_HISTORY_SIZE
           /\ history = LastN(scen.mark.history,
                              Min(MAX_HISTORY_SIZE, Len(scen.mark.history)))
           /\ currentIndex = Len(history) - 1
           /\ currentIndex = MAX_HISTORY_SIZE - 1
           /\ history[currentIndex + 1].edges = edges

\* C2 witness: more than MAX_HISTORY_SIZE mutations wrote state, the history
\* is full, and the entry of the initial funnel is gone: the oldest entry
\* left has the node that the first mutation added.
HistoryBoundWitness ==
    /\ scen.k > MAX_HISTORY_SIZE
    /\ Len(history) = MAX_HISTORY_SIZE
    /\ currentIndex = MAX_HISTORY_SIZE - 1
    /\ Len(history[1].nodes) = Len(initialNodes) + 1

----------------------------------------------------------------------------
(* Specification SpecDrag: some edits, then a burst of position changes,   *)
(* each arriving before the timer of the one before has fired, then        *)
(* DRAG_DEBOUNCE_MS without any change, during which every pending timer   *)
(* fires.  scen.u counts the position changes of the burst, scen.mark is   *)
(* the history and the index as they were when the burst began.            *)

InitDrag ==
    /\ InitStore
    /\ storage = Absent
    /\ opCount = 0
    /\ scen = [NoScen EXCEPT !.phase = "before"]

CanPrepare == scen.phase = "before" /\ scen.k < MaxMut

Prepared == scen' = [scen EXCEPT !.k = @ + 1] /\ UNCHANGED opCount

DragMount == Mount /\ UNCHANGED <<opCount, scen>>

DragAddNode ==
    /\ CanPrepare
    /\ Len(nodes) < MaxNodes
    /\ \E ty \in AddKinds, t \in now..MaxNow : addNode(ty, 0, t)
    /\ Prepared

DragDeleteEdge ==
    /\ CanPrepare
    /\ \E id \in EdgeIdInputs : deleteEdge(id)
    /\ Prepared

DragUndo ==
    /\ CanPrepare
    /\ undo
    /\ Prepared

DragSelect ==
    /\ CanPrepare
    /\ \E c \in OtherChanges : onNodesChange(c)
    /\ Prepared

DragMove ==
    /\ scen.phase \in {"before", "burst"}
    /\ scen.u < MaxBurst
    /\ \E c \in PositionChanges : onNodesChange(c)
    /\ scen' = [scen EXCEPT
                  !.phase = "burst",
                  !.u = @ + 1,
                  !.mark = IF scen.phase = "before"
                           THEN [NoMark EXCEPT !.history = history,
                                               !.currentIndex = currentIndex]
                           ELSE @]
    /\ UNCHANGED opCount

DragSettle ==
    /\ scen.phase \in {"burst", "settling"}
    /\ \E t \in timers : TimerFire(t)
    /\ scen' = [scen EXCEPT !.phase = IF timers' = {} THEN "settled" ELSE "settling"]
    /\ UNCHANGED opCount

NextDrag ==
    \/ DragMount
    \/ DragAddNode
    \/ DragDeleteEdge
    \/ DragUndo
    \/ DragSelect
    \/ DragMove
    \/ DragSettle

SpecDrag == InitDrag /\ [][NextDrag]_vars

\* C3: when a burst of position changes has settled, the history is the
\* history of before the burst (up to the index of then) with exactly one
\* entry more, that of the state the burst ended in, however many position
\* changes the burst had.
DragCoalesced ==
    scen.phase = "settled"
        => /\ history = Pushed(scen.mark.history, scen.mark.currentIndex,
                               HistoryState(nodes, edges))
           /\ currentIndex = Len(history) - 1
           /\ timers = {}

\* C3 witness: a burst of several position changes has settled, it moved a
\* node, and the history grew by one entry.
DragCoalescedWitness ==
    /\ scen.phase = "settled"
    /\ scen.u >= 2
    /\ Len(history) = Len(scen.mark.history) + 1
    /\ nodes # scen.mark.history[Len(scen.mark.history)].nodes
    /\ \E i \in 1..Len(nodes) : nodes[i].position \in 0..MaxPos

----------------------------------------------------------------------------
(* Properties of Spec: validation and history *)

\* the edges of es that leave, that reach the node with this id
EdgesFrom(es, id) == {i \in 1..Len(es) : es[i].source = id}

EdgesInto(es, id) == {i \in 1..Len(es) : es[i].target = id}

\* the warning state the validation rules prescribe for node n under es
RuleWarning(n, es) ==
    IF n.nodeType = "salesPage"
    THEN IF EdgesFrom(es, n.id) = {} THEN <<"true", WarnNoOrder>>
         ELSE IF Cardinality(EdgesFrom(es, n.id)) > 1 THEN <<"true", WarnMulti>>
         ELSE <<"false", "">>
    ELSE IF EdgesInto(es, n.id) = {} THEN <<"true", WarnOrphan>>
         ELSE <<"false", "">>

\* n is flagged exactly when the rules flag it, and then with their message
\* (a node that never went through validation has no warning fields and
\* counts as not flagged)
WarningConsistent(n, es) ==
    /\ (n.hasWarning = "true") <=> (RuleWarning(n, es)[1] = "true")
    /\ n.hasWarning = "true" => n.warningMessage = RuleWarning(n, es)[2]

\* C11: in every history entry the warning fields of the nodes agree with
\* the edges of that same entry (the entry is taken after validation).
HistoryEntriesValidated ==
    \A k \in 1..Len(history) :
        \A i \in 1..Len(history[k].nodes) :
            WarningConsistent(history[k].nodes[i], history[k].edges)

\* the last handler wrote the edge collection
EdgesWritten ==
    \/ last.op \in {"mount", "deleteNode", "deleteEdge", "clear"}
    \/ last.op \in {"connect", "undo", "redo"} /\ last.ok
    \/ last.op = "import" /\ last.input = "document"

\* C12: once a change of the edge collection has settled, every node carries
\* the warning of the rules: a sales page is flagged for no outgoing edge
\* and for more than one, every other node exactly when it has no incoming
\* edge, and no node for lacking outgoing edges unless it is a sales page.
ValidationRules ==
    (isInitialized /\ EdgesWritten)
        => \A i \in 1..Len(nodes) :
              <<nodes[i].hasWarning, nodes[i].warningMessage>>
                  = RuleWarning(nodes[i], edges)

\* C12 witness: a connect gave the sales page its second outgoing edge, it
\* is flagged for that; the thank-you node has no outgoing edge and no flag.
ValidationRulesWitness ==
    /\ last.op = "connect" /\ last.ok
    /\ \E i \in 1..Len(nodes) :
          /\ nodes[i].nodeType = "salesPage"
          /\ Cardinality(EdgesFrom(edges, nodes[i].id)) = 2
          /\ nodes[i].warningMessage = WarnMulti
    /\ \E i \in 1..Len(nodes) :
          /\ nodes[i].nodeType = "thankYou"
          /\ EdgesFrom(edges, nodes[i].id) = {}
          /\ nodes[i].hasWarning = "false"

\* the positions of the messages of one kind in a list of errors
ErrorsOfKind(errs, kind) == {i \in 1..Len(errs) : errs[i].kind = kind}

\* the default funnel with one upsell more, whatever its position and flags
DefaultPlusUpsell ==
    /\ Len(nodes) = 4
    /\ <<nodes[1].id, nodes[2].id, nodes[3].id>> = <<SalesId, OrderId, ThankYouId>>
    /\ <<nodes[1].nodeType, nodes[2].nodeType, nodes[3].nodeType>>
           = <<"salesPage", "orderPage", "thankYou">>
    /\ nodes[4].nodeType = "upsell"
    /\ nodes[4].id \notin {SalesId, OrderId, ThankYouId}

Connections(es) == {<<es[i].source, es[i].target>> : i \in 1..Len(es)}

\* C13: getValidationErrors lists, in this order, one orphan message exactly
\* when some node that is no sales page has no incoming edge, the missing
\* thank-you message exactly when the funnel is not empty and has no
\* thank-you node, and one message for each sales page without outgoing
\* edge; the default funnel with an unconnected upsell gives the orphan
\* message alone, and no message once the order page is connected to it.
ValidationErrorsListed ==
    isInitialized =>
        LET errs == getValidationErrors
            orphan == ErrorsOfKind(errs, "orphan")
            thankYou == ErrorsOfKind(errs, "noThankYou")
            sales == ErrorsOfKind(errs, "noOutgoing")
        IN  /\ Cardinality(orphan) =
                  (IF \E i \in 1..Len(nodes) :
                         /\ nodes[i].nodeType # "salesPage"
                         /\ EdgesInto(edges, nodes[i].id) = {}
                   THEN 1 ELSE 0)
            /\ Cardinality(thankYou) =
                  (IF /\ nodes # <<>>
                      /\ \A i \in 1..Len(nodes) : nodes[i].nodeType # "thankYou"
                   THEN 1 ELSE 0)
            /\ Cardinality(sales) =
                  Cardinality({i \in 1..Len(nodes) :
                                  /\ nodes[i].nodeType = "salesPage"
                                  /\ EdgesFrom(edges, nodes[i].id) = {}})
            /\ orphan \cup thankYou \cup sales = 1..Len(errs)
            /\ \A o \in orphan, t \in thankYou : o < t
            /\ \A t \in thankYou, s \in sales : t < s
            /\ \A o \in orphan, s \in sales : o < s
            /\ (DefaultPlusUpsell /\ Connections(edges) = Connections(initialEdges))
                  => Len(errs) = 1 /\ errs[1].kind = "orphan"
            /\ (DefaultPlusUpsell /\ Connections(edges) =
                    Connections(initialEdges) \cup {<<OrderId, nodes[4].id>>})
                  => errs = <<>>

\* C13 witness: an upsell was added to the default funnel, the order page
\* was then connected to it, and no error is reported.
ValidationErrorsWitness ==
    /\ last.op = "connect" /\ last.ok
    /\ DefaultPlusUpsell
    /\ Connections(edges) = Connections(initialEdges) \cup {<<OrderId, nodes[4].id>>}
    /\ getValidationErrors = <<>>

----------------------------------------------------------------------------
(* Specification SpecLabels: a funnel is loaded from the storage, a         *)
(* document may be imported once, and nodes of every kind are added.       *)

\* a saved funnel whose upsell label carries no number
BareUpsellNodes ==
    << MkNode(<<"upsell", 0>>, "upsell", Label("Upsell", NoNum), 0, Undefined, Undefined),
       MkNode(<<"downsell", 0>>, "downsell", Label("Downsell", 3), 0, Undefined, Undefined) >>

\* a document whose second node has no label
HalfLabelledNodes ==
    << MkNode(<<"upsell", 0>>, "upsell", Label("Upsell", 1), 0, Undefined, Undefined),
       [MkNode(<<"upsell", 1>>, "upsell", NoLabel, 0, Undefined, Undefined)
            EXCEPT !.label = NoLabel] >>

LabelTexts ==
    { Stringify(SavedNodes, <<>>),
      Stringify(BareUpsellNodes, <<>>),
      Stringify(HalfLabelledNodes, <<>>) }

\* loaded: the text the storage held at mount; counts: the counters the load
\* left; imported: the text imported since
LabelMark(loaded, counts, imported) ==
    [loaded |-> loaded, counts |-> counts, imported |-> imported]

InitLabels ==
    /\ InitStore
    /\ storage \in {Absent} \cup LabelTexts
    /\ opCount = 0
    /\ scen = [NoScen EXCEPT !.phase = "labels",
                             !.mark = LabelMark(Absent, createLabelCounter, Absent)]

LabMount ==
    /\ Mount
    /\ scen' = [scen EXCEPT !.mark = LabelMark(storage, labelCounts', Absent)]
    /\ UNCHANGED opCount

LabImport ==
    /\ scen.u = 0
    /\ \E json \in LabelTexts :
          /\ importFunnel(json)
          /\ scen' = [scen EXCEPT !.u = 1, !.mark.imported = json]
    /\ UNCHANGED opCount

LabAddNode ==
    /\ scen.k < MaxAdds
    /\ \E ty \in NodeType : addNode(ty, 0, scen.k)
    /\ scen' = [scen EXCEPT !.k = @ + 1]
    /\ UNCHANGED opCount

NextLabels ==
    \/ LabMount
    \/ LabImport
    \/ LabAddNode

SpecLabels == InitLabels /\ [][NextLabels]_vars

\* a step of addNode in SpecLabels
AddStep == scen'.k = scen.k + 1 /\ last'.op = "addNode"

\* the label the allocation rule gives the count-th node of a kind
RuleLabel(nodeType, count) ==
    IF nodeType \in {"upsell", "downsell"} \/ count > 1
    THEN Label(NODE_TYPE_CONFIG[nodeType].label, count)
    ELSE Label(NODE_TYPE_CONFIG[nodeType].label, NoNum)

\* C14: addNode raises the counter of the kind by one and leaves the other
\* counters, appends one node, labelled with the display name of the kind
\* and the new count for an upsell, a downsell or a count above 1, with the
\* bare display name else; on the fresh default funnel the first upsell is
\* "Upsell 1" and the first downsell "Downsell 1".
LabelAllocation ==
    [][AddStep =>
         LET new == nodes'[Len(nodes')]
             ty == new.nodeType
         IN  /\ nodes' = Append(nodes, new)
             /\ labelCounts' = [labelCounts EXCEPT ![ty] = labelCounts[ty] + 1]
             /\ new.label = RuleLabel(ty, labelCounts'[ty])
             /\ (scen.mark.loaded = Absent /\ scen.u = 0 /\ scen.k = 0
                    /\ ty \in {"upsell", "downsell"})
                  => new.label = Label(NODE_TYPE_CONFIG[ty].label, 1)]_vars

\* C14 witness: the first upsell added to the default funnel is "Upsell 1",
\* and the sales page added after it is "Sales Page 2".
LabelAllocationWitness ==
    /\ scen.phase = "labels" /\ scen.mark.loaded = Absent /\ scen.u = 0
    /\ Len(nodes) = 5
    /\ nodes[4].label = Label("Upsell", 1)
    /\ nodes[5].label = Label("Sales Page", 2)
    /\ labelCounts = [createLabelCounter EXCEPT !["upsell"] = 1, !["salesPage"] = 2]

\* C15: after a load or an import the counter of each kind is at least
\* every number that ends a label of a node of that kind, and the node that
\* addNode appends carries a label that no node of its kind had.
LabelsStayUnique ==
    [][/\ isInitialized' =>
            \A i \in 1..Len(nodes') :
                nodes'[i].label # NoLabel /\ nodes'[i].label.num # NoNum
                    => labelCounts'[nodes'[i].nodeType] >= nodes'[i].label.num
       /\ AddStep =>
            \A i \in 1..Len(nodes) :
                nodes[i].nodeType = nodes'[Len(nodes')].nodeType
                    => nodes[i].label # nodes'[Len(nodes')].label]_vars

\* C16: importing the text that was loaded at mount leaves the counters the
\* load left: both reconstructions are the same function, and both raise
\* the counter of a kind to at least 1 for a label without a number.
ReconstructionAgrees ==
    (/\ scen.phase = "labels"
     /\ last.op = "import" /\ last.ok
     /\ scen.mark.imported = scen.mark.loaded)
        => labelCounts = scen.mark.counts

----------------------------------------------------------------------------
(* Properties of Spec: undo and redo *)

\* the state and the refs of the hook, the storage and the pending timers
hookState == <<nodes, edges, labelCounts, isInitialized, history, currentIndex,
               currentIndexRef, isUndoRedoRef, isInitialLoadRef,
               isValidationUpdateRef, isDraggingRef, dragDebounceTimerRef,
               timers, storage>>

\* a call of undo or of redo
UndoRedoStep == opCount' = opCount + 1 /\ last'.op \in {"undo", "redo"}

\* a mutation outside a drag, made right after a call of undo or redo that
\* did nothing
MutationAfterBound ==
    /\ last.op \in {"undo", "redo"} /\ ~last.ok
    /\ opCount' = opCount + 1
    /\ last'.op \in {"addNode", "deleteNode", "deleteEdge"}
    /\ ~isDraggingRef

\* C17: undo at currentIndex <= 0 and redo at currentIndex >= length - 1
\* change nothing of the store and mark nothing, so the mutation that
\* follows is recorded; undo acts exactly when canUndo, redo exactly when
\* canRedo, and canUndo is currentIndex > 0, canRedo is currentIndex <
\* length - 1.
BoundsAreNoOps ==
    /\ [](/\ canUndo <=> currentIndex > 0
          /\ canRedo <=> currentIndex < Len(history) - 1)
    /\ [][/\ UndoRedoStep =>
               /\ last'.op = "undo" => (last'.ok <=> currentIndex > 0)
               /\ last'.op = "redo" => (last'.ok <=> currentIndex < Len(history) - 1)
               /\ ~last'.ok => UNCHANGED hookState
          /\ MutationAfterBound =>
               /\ Len(history') = Min(currentIndex + 2, MAX_HISTORY_SIZE)
               /\ history' = Pushed(history, currentIndex, history'[Len(history')])
               /\ history'[Len(history')].edges = edges'
               /\ currentIndex' = Len(history') - 1]_vars

\* C17 witness: a node was added and redo was called at the top of the
\* history: two entries, the index on the last, nothing redone.
BoundsAreNoOpsWitness ==
    /\ last.op = "redo" /\ ~last.ok
    /\ Len(history) = 2 /\ currentIndex = 1
    /\ ~isUndoRedoRef
    /\ Len(nodes) = 4

----------------------------------------------------------------------------
(* Properties of SpecUndoRedo and SpecBranch *)

\* a call of undo or redo of SpecUndoRedo that was not refused
ReplayStep ==
    /\ scen'.u = scen.u + 1 \/ scen'.r = scen.r + 1
    /\ last'.op \in {"undo", "redo"} /\ last'.ok

\* a node that never went through validation reads as a node without flag
Unflagged(n) ==
    IF n.hasWarning = Undefined
    THEN [n EXCEPT !.hasWarning = "false", !.warningMessage = ""]
    ELSE n

SameNodes(ns, ms) ==
    /\ Len(ns) = Len(ms)
    /\ \A i \in 1..Len(ns) : Unflagged(ns[i]) = Unflagged(ms[i])

\* C18: an undo that is not refused lowers currentIndex by one, a redo
\* raises it by one; when the replay and its validation pass have settled
\* the nodes and the edges are those of the history entry at the new index,
\* and the history is what it was.
ReplayCopiesEntry ==
    [][ReplayStep =>
         /\ currentIndex' = currentIndex + (IF last'.op = "undo" THEN -1 ELSE 1)
         /\ history' = history
         /\ SameNodes(nodes', history[currentIndex' + 1].nodes)
         /\ edges' = history[currentIndex' + 1].edges]_vars

(* Specification SpecBranch: up to MaxMut mutations, then calls of undo,   *)
(* then one more mutation, then a call of redo.                            *)

InitBranch ==
    /\ InitStore
    /\ storage = Absent
    /\ opCount = 0
    /\ scen = [NoScen EXCEPT !.phase = "mutate"]

\* a mutation may come before the calls of undo, or as the one after them
CanBranch ==
    /\ isInitialized
    /\ \/ scen.phase = "mutate" /\ scen.k < MaxMut
       \/ scen.phase = "undo"

\* wrote: the handler wrote nodes or edges
Branched(wrote) ==
    scen' = IF ~wrote THEN scen
            ELSE IF scen.phase = "mutate" THEN [scen EXCEPT !.k = @ + 1]
            ELSE [scen EXCEPT !.phase = "branched",
                              !.mark = [NoMark EXCEPT !.history = history,
                                                      !.currentIndex = currentIndex]]

BrMount == Mount /\ UNCHANGED <<opCount, scen>>

BrAddNode ==
    /\ CanBranch
    /\ addNode("upsell", 0, now)
    /\ Branched(TRUE) /\ UNCHANGED opCount

BrDeleteNode ==
    /\ CanBranch
    /\ \E id \in CapNodeIds : deleteNode(id)
    /\ Branched(TRUE) /\ UNCHANGED opCount

BrDeleteEdge ==
    /\ CanBranch
    /\ \E id \in CapEdgeIds : deleteEdge(id)
    /\ Branched(TRUE) /\ UNCHANGED opCount

BrConnect ==
    /\ CanBranch
    /\ \E c \in CapConnections : onConnect(c[1], c[2])
    /\ Branched(last'.ok) /\ UNCHANGED opCount

BrUndo ==
    /\ scen.phase \in {"mutate", "undo"}
    /\ scen.k >= 1 /\ scen.u < scen.k
    /\ undo
    /\ scen' = [scen EXCEPT !.phase = "undo", !.u = @ + 1]
    /\ UNCHANGED opCount

BrRedo ==
    /\ scen.phase = "branched" /\ scen.r = 0
    /\ redo
    /\ scen' = [scen EXCEPT !.r = 1]
    /\ UNCHANGED opCount

NextBranch ==
    \/ BrMount
    \/ BrAddNode
    \/ BrDeleteNode
    \/ BrDeleteEdge
    \/ BrConnect
    \/ BrUndo
    \/ BrRedo

SpecBranch == InitBranch /\ [][NextBranch]_vars

\* C19: after calls of undo, a mutation outside a drag drops the entries
\* beyond currentIndex and appends its own: the history is the entries up to
\* the index of before with one entry more, currentIndex is on the last
\* entry, canRedo is false and a call of redo does nothing.
FutureTruncated ==
    scen.phase = "branched"
        => /\ Len(history) = scen.mark.currentIndex + 2
           /\ SubSeq(history, 1, Len(history) - 1)
                  = SubSeq(scen.mark.history, 1, scen.mark.currentIndex + 1)
           /\ history[Len(history)].edges = edges
           /\ currentIndex = Len(history) - 1
           /\ ~canRedo
           /\ scen.r = 1 => last = Result("redo", FALSE, "")

\* C19 witness: two mutations, two calls of undo, a mutation: both undone
\* entries are gone, the history has the first entry and the new one, and
\* the call of redo was refused.
FutureTruncatedWitness ==
    /\ scen.phase = "branched"
    /\ scen.u = 2
    /\ Len(scen.mark.history) = 3 /\ scen.mark.currentIndex = 0
    /\ Len(history) = 2
    /\ history[2] # scen.mark.history[2]
    /\ scen.r = 1 /\ last.op = "redo"

----------------------------------------------------------------------------
(* Properties of Spec: deleteNode *)

\* the nodes other than id, the edges that do not touch id, in their order
NodesWithout(ns, id) ==
    LET Keep(n) == n.id # id
    IN  SelectSeq(ns, Keep)

EdgesWithout(es, id) ==
    LET Keep(e) == e.source # id /\ e.target # id
    IN  SelectSeq(es, Keep)

\* a node apart from the two fields that validation derives from the edges
WithoutWarning(n) == [n EXCEPT !.hasWarning = Undefined, !.warningMessage = Undefined]

\* a call deleteNode(id) of Spec
DeleteNodeStep(id) ==
    /\ opCount' = opCount + 1
    /\ last'.op = "deleteNode"
    /\ deleteNode(id)

\* C20 as stated: deleteNode(id) removes the node id and the edges that
\* touch id, and every other node and edge is what it was, in the same order.
DeleteNodeFrame ==
    [][\A id \in NodeIdInputs :
         DeleteNodeStep(id) => /\ nodes' = NodesWithout(nodes, id)
                               /\ edges' = EdgesWithout(edges, id)]_vars

\* C20 amended: deleteNode(id) removes the node id and the edges that touch
\* id; every other edge is what it was, every other node is what it was
\* apart from hasWarning and warningMessage, which are those of the rules
\* for the remaining edges; the order of both is kept.
DeleteNodeRemoves ==
    [][\A id \in NodeIdInputs :
         DeleteNodeStep(id) =>
            /\ edges' = EdgesWithout(edges, id)
            /\ Len(nodes') = Len(NodesWithout(nodes, id))
            /\ \A i \in 1..Len(nodes') :
                  /\ WithoutWarning(nodes'[i]) = WithoutWarning(NodesWithout(nodes, id)[i])
                  /\ <<nodes'[i].hasWarning, nodes'[i].warningMessage>>
                        = RuleWarning(nodes'[i], edges')]_vars

\* C20 witness: the order page of the default funnel was deleted: the sales
\* page and the thank-you page are left, no edge is, and both are flagged.
DeleteNodeRemovesWitness ==
    /\ last.op = "deleteNode"
    /\ Len(nodes) = 2 /\ edges = <<>>
    /\ <<nodes[1].id, nodes[2].id>> = <<SalesId, ThankYouId>>
    /\ nodes[1].warningMessage = WarnNoOrder
    /\ nodes[2].warningMessage = WarnOrphan
    /\ Len(history[1].edges) = 2

----------------------------------------------------------------------------
(* Properties of Spec: ids, connections, deletions, orphan warnings *)

NodeIds(ns) == {ns[i].id : i \in 1..Len(ns)}

\* C21: no two nodes of the node collection have the same id, also when
\* addNode is called twice for one kind at one reading of the clock.
NodeIdsUnique ==
    \A i \in 1..Len(nodes), j \in 1..Len(nodes) :
        nodes[i].id = nodes[j].id => i = j

\* a call onConnect(s, t) of Spec
ConnectStep(s, t) ==
    /\ opCount' = opCount + 1
    /\ last'.op = "connect"
    /\ onConnect(s, t)

\* C22: connect(source, target) adds an edge only when source and target
\* are both ids of nodes of the collection at the call; else the edge
\* collection is what it was.
ConnectNeedsNodes ==
    [][\A s \in NodeIdInputs, t \in NodeIdInputs :
         (ConnectStep(s, t) /\ ~(s \in NodeIds(nodes) /\ t \in NodeIds(nodes)))
             => edges' = edges]_vars

\* a call of deleteNode or of deleteEdge of Spec with an id that no node and
\* no edge has
DeleteMissingStep ==
    /\ opCount' = opCount + 1
    /\ \/ last'.op = "deleteNode" /\ deleteNode(GhostId)
       \/ last'.op = "deleteEdge" /\ deleteEdge(GhostId)

\* C26: deleteNode and deleteEdge with an id that is in neither collection
\* leave nodes, edges, history and currentIndex unchanged.
DeleteMissingIsNoOp ==
    [][DeleteMissingStep => UNCHANGED <<nodes, edges, history, currentIndex>>]_vars

\* the nodes that are no sales page and have no incoming edge
Orphans == {i \in 1..Len(nodes) :
               /\ nodes[i].nodeType # "salesPage"
               /\ EdgesInto(edges, nodes[i].id) = {}}

\* the number of orphans that the orphan message of a list of errors reports
ReportedOrphans(errs) ==
    IF ErrorsOfKind(errs, "orphan") = {} THEN 0
    ELSE errs[CHOOSE i \in ErrorsOfKind(errs, "orphan") : TRUE].count

\* C28: in every settled state each node that is no sales page and has no
\* incoming edge has hasWarning = true, so as many nodes carry the orphan
\* warning as getValidationErrors counts orphans.
OrphansWarned ==
    isInitialized =>
        /\ \A i \in Orphans : nodes[i].hasWarning = "true"
        /\ Cardinality({i \in 1..Len(nodes) : nodes[i].warningMessage = WarnOrphan})
              = ReportedOrphans(getValidationErrors)

----------------------------------------------------------------------------
(* Specification SpecTimers: position changes, other mutations, undo, redo *)
(* and firings of the drag timer in any order, MaxTimerOps handler calls   *)
(* at most.  A pending timer may fire between any two calls or stay        *)
(* pending.                                                                 *)

MaxTimerOps == 3



InitTimers ==
    /\ InitStore
    /\ storage = Absent
    /\ opCount = 0
    /\ scen = [NoScen EXCEPT !.phase = "timers"]

TmBudget == opCount < MaxTimerOps

TmMount == Mount /\ UNCHANGED <<opCount, scen>>

TmAddNode ==
    /\ TmBudget
    /\ Len(nodes) < MaxNodes
    /\ addNode("upsell", 0, now)
    /\ Spend

TmMove ==
    /\ TmBudget
    /\ \E c \in PositionChanges : onNodesChange(c)
    /\ Spend

TmNodesChange ==
    /\ TmBudget
    /\ \E c \in OtherChanges : onNodesChange(c)
    /\ Spend

TmUndo ==
    /\ TmBudget
    /\ undo
    /\ Spend

TmRedo ==
    /\ TmBudget
    /\ redo
    /\ Spend

TmFire == \E t \in timers : TimerFire(t) /\ UNCHANGED <<opCount, scen>>

NextTimers ==
    \/ TmMount
    \/ TmAddNode
    \/ TmMove
    \/ TmNodesChange
    \/ TmUndo
    \/ TmRedo
    \/ TmFire

SpecTimers == InitTimers /\ [][NextTimers]_vars

\* C25: at most one drag timer is pending in every state, it is the one
\* dragDebounceTimerRef holds, and a step that arms a timer leaves no other
\* timer pending, whatever the order of position changes, other mutations
\* and firings.
OneTimerPending ==
    /\ [](/\ Cardinality(timers) <= 1
          /\ \A t \in timers : t.handle = dragDebounceTimerRef)
    /\ [][\A t \in timers' : t \in timers \/ timers' = {t}]_vars

\* C25 witness: a second position change arrived while the timer of the
\* first was pending; one timer is pending and it holds the second position.
OneTimerPendingWitness ==
    /\ opCount = 2
    /\ last.op = "position"
    /\ Len(history) = 1
    /\ nodes[Len(nodes)].position = 1
    /\ \E t \in timers : t.nodes = CloneNodes(nodes)

\* the nodes with their warning fields blanked
Unwarned(ns) == [i \in 1..Len(ns) |-> WithoutWarning(ns[i])]

\* no drag timer pending (the effects are settled in every state)
Quiescent == isInitialized /\ timers = {}

\* C30: in every quiescent state the live nodes and edges are those of the
\* history entry at currentIndex, the warning fields apart, also when undo
\* or redo ran while a drag timer was pending.
HistoryAgreesWithLive ==
    Quiescent =>
        /\ currentIndex + 1 \in DOMAIN history
        /\ Unwarned(history[currentIndex + 1].nodes) = Unwarned(nodes)
        /\ history[currentIndex + 1].edges = edges

----------------------------------------------------------------------------
(* Properties of SpecDrag: the steps of a burst *)

\* a position change of the burst
MoveStep == last'.op = "position" /\ scen'.u = scen.u + 1

\* the timer of the burst fires
SettleStep == scen.phase = "burst" /\ scen'.phase = "settled" /\ last'.op = "timer"

\* C27: a position change leaves the store dragging and appends nothing to
\* the history; when the timer fires the store is idle again and the history
\* has exactly one entry more, the state the last position change left.
DragSettles ==
    [][/\ MoveStep => /\ isDraggingRef'
                      /\ history' = history
                      /\ currentIndex' = currentIndex
                      /\ timers' # {}
       /\ SettleStep => /\ isDraggingRef
                        /\ ~isDraggingRef'
                        /\ history' = Pushed(history, currentIndex,
                                             HistoryState(nodes, edges))
                        /\ currentIndex' = Len(history') - 1
                        /\ nodes' = nodes /\ edges' = edges]_vars

\* C27 witness: the timer has fired after a burst that ended with the node
\* at position 1; the store is idle and the last entry has the node there.
DragSettlesWitness ==
    /\ scen.phase = "settled"
    /\ last.op = "timer"
    /\ ~isDraggingRef
    /\ dragDebounceTimerRef = 0
    /\ scen.u = MaxBurst
    /\ nodes[Len(nodes)].position = 1
    /\ history[Len(history)].nodes[Len(nodes)].position = 1

----------------------------------------------------------------------------
(* The keyboard shortcuts of the toolbar *)

\* handleKeyDown of FunnelToolbar, with onUndo = undo and onRedo = redo of
\* the store (FunnelCanvas passes them).  e.key is compared with the lower
\* case letters only.
handleKeyDown(e) ==
    IF (e.metaKey \/ e.ctrlKey) /\ e.key = "z"
    THEN IF e.shiftKey THEN redo ELSE undo
    ELSE IF (e.metaKey \/ e.ctrlKey) /\ e.key = "y"
    THEN redo
    ELSE /\ UNCHANGED hookState
         /\ now' = now
         /\ last' = Result("key", FALSE, "")

\* The value of KeyboardEvent.key for a letter key: the letter itself, and
\* with Shift held its capital (some platforms keep the lower case letter
\* while Cmd is held).
KeyOfLetter(letter, shift, meta) ==
    IF ~shift THEN {letter}
    ELSE IF letter = "z" THEN IF meta THEN {"Z", "z"} ELSE {"Z"}
    ELSE IF letter = "y" THEN IF meta THEN {"Y", "y"} ELSE {"Y"}
    ELSE IF meta THEN {"A", "a"} ELSE {"A"}

\* keydown events: the letter key pressed, the modifiers, the key value
KeyEvents ==
    {[letter |-> l, shiftKey |-> s, ctrlKey |-> c, metaKey |-> m, key |-> k] :
        l \in {"z", "y", "a"}, s \in BOOLEAN, c \in BOOLEAN, m \in BOOLEAN,
        k \in {"z", "Z", "y", "Y", "a", "A"}}

KeyInputs == {e \in KeyEvents : e.key \in KeyOfLetter(e.letter, e.shiftKey, e.metaKey)}

----------------------------------------------------------------------------
(* Specification SpecKeys: some edits and keydown events in any order,     *)
(* MaxKeyOps calls at most.  scen.mark is the last keydown event.          *)

MaxKeyOps == 3

NoKey == [letter |-> "a", shiftKey |-> FALSE, ctrlKey |-> FALSE,
          metaKey |-> FALSE, key |-> "a"]

InitKeys ==
    /\ InitStore
    /\ storage = Absent
    /\ opCount = 0
    /\ scen = [NoScen EXCEPT !.phase = "keys", !.mark = NoKey]

KyBudget == opCount < MaxKeyOps

KyMount == Mount /\ UNCHANGED <<opCount, scen>>

KyAddNode ==
    /\ KyBudget
    /\ Len(nodes) < MaxNodes
    /\ addNode("upsell", 0, now)
    /\ Spend

KyDeleteEdge ==
    /\ KyBudget
    /\ \E id \in EdgeIdInputs : deleteEdge(id)
    /\ Spend

KyKeyDown ==
    /\ KyBudget
    /\ isInitialized
    /\ \E e \in KeyInputs :
          /\ handleKeyDown(e)
          /\ scen' = [scen EXCEPT !.mark = e, !.r = @ + 1]
    /\ opCount' = opCount + 1

NextKeys ==
    \/ KyMount
    \/ KyAddNode
    \/ KyDeleteEdge
    \/ KyKeyDown

SpecKeys == InitKeys /\ [][NextKeys]_vars

\* what a keydown event is to dispatch
Shortcut(e) ==
    IF ~(e.ctrlKey \/ e.metaKey) THEN "key"
    ELSE IF e.letter = "z" /\ ~e.shiftKey THEN "undo"
    ELSE IF e.letter = "z" \/ e.letter = "y" THEN "redo"
    ELSE "key"

\* C29: a keydown with Ctrl or Cmd held calls undo, and nothing else, for Z
\* without Shift, and redo, and nothing else, for Shift+Z and for Y; every
\* other keydown calls neither.
KeyboardDispatch ==
    (scen.phase = "keys" /\ last.op \in {"undo", "redo", "key"})
        => last.op = Shortcut(scen.mark)

----------------------------------------------------------------------------
(* Reload of the page, and specification SpecStorage: the application      *)
(* starts on any stored text, some edits follow, the page is reloaded and  *)
(* the application starts again on what the session before has stored.     *)

\* Reloading the page: the component starts again from its initial state,
\* pending timers are gone, localStorage is kept.
Reload ==
    /\ isInitialized
    /\ Install([ nodes |-> <<>>, edges |-> <<>>,
                 labelCounts |-> createLabelCounter,
                 isInitialized |-> FALSE, history |-> <<>>,
                 currentIndex |-> -1, currentIndexRef |-> -1,
                 isUndoRedoRef |-> FALSE, isInitialLoadRef |-> TRUE,
                 isValidationUpdateRef |-> FALSE, isDraggingRef |-> FALSE,
                 dragDebounceTimerRef |-> 0, timers |-> {},
                 storage |-> storage ])
    /\ now' = now
    /\ last' = Result("reload", TRUE, "")

MaxStoreOps == 2

\* an object with an empty nodes array and no edges member
NodesOnlyText == JsonText("object", TRUE, FALSE, <<>>, <<>>)

\* an object with an edges array and no nodes member
EdgesOnlyText == JsonText("object", FALSE, TRUE, <<>>, <<>>)

\* stored texts that are no saved funnel
CorruptTexts ==
    {Garbage, NodesOnlyText, EdgesOnlyText, Stringify(UnlabelledNodes, <<>>)}

StorageInputs == {Absent, Stringify(SavedNodes, <<>>)} \cup CorruptTexts

InitStorage ==
    /\ InitStore
    /\ storage \in StorageInputs
    /\ opCount = 0
    /\ scen = [NoScen EXCEPT !.phase = "live"]

\* the application is mounted and has not crashed
Running == isInitialized /\ last.input # "crashed"

CanEdit == Running /\ scen.phase = "live" /\ opCount < MaxStoreOps

StMount == Mount /\ UNCHANGED <<opCount, scen>>

StAddNode ==
    /\ CanEdit
    /\ Len(nodes) < MaxNodes
    /\ \E ty \in AddKinds : addNode(ty, 0, now)
    /\ Spend

StDeleteEdge ==
    /\ CanEdit
    /\ \E id \in EdgeIdInputs : deleteEdge(id)
    /\ Spend

StMove ==
    /\ CanEdit
    /\ \E c \in PositionChanges : onNodesChange(c)
    /\ Spend

StFire ==
    /\ Running
    /\ \E t \in timers : TimerFire(t)
    /\ UNCHANGED <<opCount, scen>>

StUndo ==
    /\ CanEdit
    /\ undo
    /\ Spend

StReload ==
    /\ Running
    /\ scen.phase = "live"
    /\ Reload
    /\ scen' = [scen EXCEPT !.phase = "reloaded",
                            !.mark = [NoMark EXCEPT !.nodes = nodes, !.edges = edges]]
    /\ UNCHANGED opCount

NextStorage ==
    \/ StMount
    \/ StAddNode
    \/ StDeleteEdge
    \/ StMove
    \/ StFire
    \/ StUndo
    \/ StReload

SpecStorage == InitStorage /\ [][NextStorage]_vars

\* the stored text is the serialization of the live state
Saved == storage = Stringify(nodes, edges)

\* C23: once initialized, in every settled state the stored text is the
\* serialization of the live nodes and edges, and the application started
\* again on it has exactly the nodes and edges the page had when it was
\* reloaded.
PersistenceTracksLive ==
    Running =>
        /\ Saved
        /\ scen.phase = "reloaded" =>
              /\ nodes = scen.mark.nodes
              /\ edges = scen.mark.edges

\* the application is mounted from a text of storage
MountStep == ~isInitialized /\ last'.op = "mount"

\* C24: when the stored text is absent or corrupt, the mount ends with the
\* default funnel of three nodes and two edges, initialized and without an
\* error; after every mount nodes and edges are sequences.
LoadFallsBack ==
    [][MountStep =>
         /\ last'.ok
         /\ isInitialized'
         /\ storage \in {Absent} \cup CorruptTexts =>
               /\ nodes' = Validate(initialNodes, initialEdges)
               /\ edges' = initialEdges]_vars

----------------------------------------------------------------------------
(* Properties of SpecTimers: timers that outlive the drag *)

\* C31: a drag timer is pending only while the store is dragging, and a
\* timer that fires when the store is idle already (a change without a
\* position made the snapshot) appends no entry to the history.
NoStaleTimer ==
    /\ [](timers # {} => isDraggingRef)
    /\ [][(~isDraggingRef /\ last'.op = "timer" /\ timers' # timers)
              => history' = history]_vars

----------------------------------------------------------------------------
(* Specification SpecFlags: mutations, position changes, firings, undo and *)
(* redo in any order, MaxFlagOps calls at most.  scen.mark is what the     *)
(* call before the last one was.                                           *)

MaxFlagOps == 3

FlagConnections == {<<SalesId, ThankYouId>>, <<OrderId, SalesId>>, <<ThankYouId, SalesId>>}

InitFlags ==
    /\ InitStore
    /\ storage = Absent
    /\ opCount = 0
    /\ scen = [NoScen EXCEPT !.phase = "flags", !.mark = Result("none", TRUE, "")]

FlBudget == opCount < MaxFlagOps

FlCalled == opCount' = opCount + 1 /\ scen' = [scen EXCEPT !.mark = last]

FlMount == Mount /\ UNCHANGED <<opCount, scen>>

FlAddNode ==
    /\ FlBudget
    /\ Len(nodes) < MaxNodes
    /\ addNode("upsell", 0, now)
    /\ FlCalled

FlDeleteNode ==
    /\ FlBudget
    /\ \E id \in PointerIds : deleteNode(id)
    /\ FlCalled

FlConnect ==
    /\ FlBudget
    /\ \E c \in FlagConnections : onConnect(c[1], c[2])
    /\ FlCalled

FlMove ==
    /\ FlBudget
    /\ \E c \in PositionChanges : onNodesChange(c)
    /\ FlCalled

FlFire == \E t \in timers : TimerFire(t) /\ UNCHANGED <<opCount, scen>>

FlUndo ==
    /\ FlBudget
    /\ undo
    /\ FlCalled

FlRedo ==
    /\ FlBudget
    /\ redo
    /\ FlCalled

NextFlags ==
    \/ FlMount
    \/ FlAddNode
    \/ FlDeleteNode
    \/ FlConnect
    \/ FlMove
    \/ FlFire
    \/ FlUndo
    \/ FlRedo

SpecFlags == InitFlags /\ [][NextFlags]_vars

\* a call of a user mutation that wrote nodes or edges
UserMutationStep ==
    /\ opCount' = opCount + 1
    /\ last'.op \in {"position", "addNode", "deleteNode", "connect"}
    /\ last'.ok

\* the state the step leaves is the last entry of the history, recorded
\* after the entry at the index of before
EntryRecorded ==
    /\ Len(history') = Min(currentIndex + 2, MAX_HISTORY_SIZE)
    /\ currentIndex' = Len(history') - 1
    /\ Unwarned(history'[Len(history')].nodes) = Unwarned(nodes')
    /\ history'[Len(history')].edges = edges'

\* the state the step leaves is what the pending drag timer will record
TimerArmed ==
    \E t \in timers' :
        /\ t.handle = dragDebounceTimerRef'
        /\ Unwarned(t.nodes) = Unwarned(nodes')
        /\ t.edges = edges'

----------------------------------------------------------------------------
(* Specification SpecBounds: the history is filled up to the cap by        *)
(* deletions of an edge that does not exist (each records an entry); once  *)
(* it is one short of the cap, MaxBoundOps calls of addNode, position      *)
(* change, undo, redo, importFunnel and clearFunnel follow in any order,   *)
(* with firings of the timer and further fillings in between.  scen.k      *)
(* counts the fillings.                                                    *)

MaxBoundOps == 2

InitBounds ==
    /\ InitStore
    /\ storage = Absent
    /\ opCount = 0
    /\ scen = [NoScen EXCEPT !.phase = "bounds"]

\* the filling has brought the history to one short of the cap
Filled == scen.k >= MAX_HISTORY_SIZE - 2

CanBound == Filled /\ opCount < MaxBoundOps

BdMount == Mount /\ UNCHANGED <<opCount, scen>>

BdFill ==
    /\ scen.k < MAX_HISTORY_SIZE + CapSlack
    /\ deleteEdge(GhostId)
    /\ scen' = [scen EXCEPT !.k = @ + 1]
    /\ UNCHANGED opCount

BdAddNode ==
    /\ CanBound
    /\ Len(nodes) < MaxNodes
    /\ addNode("upsell", 0, now)
    /\ Spend

BdMove ==
    /\ CanBound
    /\ \E c \in PositionChanges : onNodesChange(c)
    /\ Spend

BdFire == \E t \in timers : TimerFire(t) /\ UNCHANGED <<opCount, scen>>

BdUndo ==
    /\ CanBound
    /\ undo
    /\ Spend

BdRedo ==
    /\ CanBound
    /\ redo
    /\ Spend

BdImport ==
    /\ CanBound
    /\ \E json \in {Garbage, Stringify(HandWrittenNodes, HandWrittenEdges),
                    Stringify(UnlabelledNodes, <<>>)} : importFunnel(json)
    /\ Spend

BdClear ==
    /\ CanBound
    /\ clearFunnel
    /\ Spend

NextBounds ==
    \/ BdMount
    \/ BdFill
    \/ BdAddNode
    \/ BdMove
    \/ BdFire
    \/ BdUndo
    \/ BdRedo
    \/ BdImport
    \/ BdClear

SpecBounds == InitBounds /\ [][NextBounds]_vars

\* C33: once initialized, the history has between 1 and MAX_HISTORY_SIZE
\* entries and currentIndex is the index of one of them, whatever mutations,
\* position changes, firings, undo, redo, import and clear have run.
HistoryPointerBounds ==
    isInitialized =>
        /\ 1 <= Len(history)
        /\ Len(history) <= MAX_HISTORY_SIZE
        /\ 0 <= currentIndex
        /\ currentIndex <= Len(history) - 1

\* C33 witness: the history is full, a call of redo at its last entry was
\* refused, and currentIndex is the index of that entry.
HistoryPointerBoundsWitness ==
    /\ scen.phase = "bounds"
    /\ Len(history) = MAX_HISTORY_SIZE
    /\ last.op = "redo" /\ ~last.ok
    /\ currentIndex = MAX_HISTORY_SIZE - 1

----------------------------------------------------------------------------
(* Specification SpecLive: from the default funnel, MaxLiveOps calls of    *)
(* addNode, deleteNode, deleteEdge, connect between nodes of the funnel,   *)
(* position change, undo, redo and clearFunnel in any order, with firings  *)
(* of the timer in between.                                                *)

MaxLiveOps == 3

InitLive ==
    /\ InitStore
    /\ storage = Absent
    /\ opCount = 0
    /\ scen = [NoScen EXCEPT !.phase = "live"]

LvBudget == opCount < MaxLiveOps

\* connections between nodes of the funnel: from and to the node on top,
\* and from the last node of the default funnel
LiveConnections ==
    IF nodes = <<>> THEN {}
    ELSE {<<nodes[1].id, nodes[Len(nodes)].id>>,
          <<nodes[Len(nodes)].id, nodes[1].id>>}
         \cup {<<ThankYouId, nodes[i].id>> : i \in {j \in 1..Len(nodes) :
                                                     /\ j = 1
                                                     /\ ThankYouId \in NodeIds(nodes)}}

LvMount == Mount /\ UNCHANGED <<opCount, scen>>

LvAddNode ==
    /\ LvBudget
    /\ Len(nodes) < MaxNodes
    /\ \E ty \in AddKinds : addNode(ty, 0, now)
    /\ Spend

LvDeleteNode ==
    /\ LvBudget
    /\ \E id \in NodeIds(nodes) : deleteNode(id)
    /\ Spend

LvDeleteEdge ==
    /\ LvBudget
    /\ edges # <<>>
    /\ deleteEdge(edges[1].id)
    /\ Spend

LvConnect ==
    /\ LvBudget
    /\ \E c \in LiveConnections : onConnect(c[1], c[2])
    /\ Spend

LvMove ==
    /\ LvBudget
    /\ \E c \in PositionChanges : onNodesChange(c)
    /\ Spend

LvFire == \E t \in timers : TimerFire(t) /\ UNCHANGED <<opCount, scen>>

LvUndo ==
    /\ LvBudget
    /\ undo
    /\ Spend

LvRedo ==
    /\ LvBudget
    /\ redo
    /\ Spend

LvClear ==
    /\ LvBudget
    /\ clearFunnel
    /\ Spend

NextLive ==
    \/ LvMount
    \/ LvAddNode
    \/ LvDeleteNode
    \/ LvDeleteEdge
    \/ LvConnect
    \/ LvMove
    \/ LvFire
    \/ LvUndo
    \/ LvRedo
    \/ LvClear

SpecLive == InitLive /\ [][NextLive]_vars

\* C34: no two live nodes have the same label; undo and redo leave the
\* label counters as they are, and a counter goes down in a call of
\* clearFunnel or importFunnel only.
LiveLabelsUnique ==
    /\ [](\A i \in 1..Len(nodes), j \in 1..Len(nodes) :
              nodes[i].label = nodes[j].label => i = j)
    /\ [][last'.op \in {"undo", "redo"} => labelCounts' = labelCounts]_vars
    /\ [][(\E ty \in NodeType : labelCounts'[ty] < labelCounts[ty])
              => last'.op \in {"clear", "import"}]_vars

\* C34 witness: an upsell was added, the call was undone and an upsell was
\* added again; the only upsell of the funnel is "Upsell 2".
LiveLabelsUniqueWitness ==
    /\ scen.phase = "live"
    /\ opCount = 3
    /\ last.op = "addNode"
    /\ labelCounts["upsell"] = 2
    /\ Len(history) = 2
    /\ Len(nodes) = Len(initialNodes) + 1
    /\ nodes[Len(nodes)].label = Label("Upsell", 2)

\* C35: every live edge starts at a live node that is no thank you page and
\* ends at a live node.
EdgesReferToNodes ==
    \A i \in 1..Len(edges) :
        /\ edges[i].source \in NodeIds(nodes)
        /\ edges[i].target \in NodeIds(nodes)
        /\ ~SourceIsThankYou(nodes, edges[i].source)

\* C35 witness: deleteNode removed the thank you page of the default funnel,
\* and the edge that led to it is gone with it.
EdgesReferToNodesWitness ==
    /\ scen.phase = "live"
    /\ last.op = "deleteNode"
    /\ ~(ThankYouId \in NodeIds(nodes))
    /\ OrderId \in NodeIds(nodes)
    /\ Len(edges) = Len(initialEdges) - 1

----------------------------------------------------------------------------
(* Properties of SpecStorage: the first write *)

\* the stored text is a funnel that the load effect takes over
Loadable(text) ==
    /\ text.kind = "object" /\ text.hasNodes /\ text.hasEdges
    /\ ~LabelMatchThrows(ParseNodes(text.nodes))

\* C36: while isInitialized is false nothing writes the stored text: not
\* the effects of the first commit, which see the empty collections, and no
\* step that leaves the store uninitialized; the mount writes it first, and
\* what it writes is the state it loaded.
NoWriteBeforeLoad ==
    /\ [](~isInitialized => FirstCommit(Store).storage = storage)
    /\ [][~isInitialized' => storage' = storage]_vars
    /\ [][(MountStep /\ last'.ok) =>
            /\ storage' = Stringify(nodes', edges')
            /\ Loadable(storage) =>
                  /\ Unwarned(nodes') = Unwarned(ParseNodes(storage.nodes))
                  /\ edges' = ParseEdges(storage.edges)]_vars

\* C36 witness: the page was reloaded on a stored funnel with an added
\* node; the mount has loaded it and the stored text still holds it.
NoWriteBeforeLoadWitness ==
    /\ scen.phase = "reloaded"
    /\ last.op = "mount" /\ last.ok
    /\ Len(nodes) = Len(initialNodes) + 1
    /\ storage.nodes = StringifyNodes(nodes)
    /\ Len(history) = 1

----------------------------------------------------------------------------
(* Specification SpecSettle: position changes, other mutations, undo and   *)
(* redo in any order, MaxSettleOps calls at most, and a pending drag timer *)
(* fires in the end (weak fairness of its firing).  scen.mark is the live  *)
(* state as the last position change left it.                              *)

MaxSettleOps == 3

InitSettle ==
    /\ InitStore
    /\ storage = Absent
    /\ opCount = 0
    /\ scen = [NoScen EXCEPT !.phase = "settle"]

SeBudget == opCount < MaxSettleOps

SeMount == Mount /\ UNCHANGED <<opCount, scen>>

SeMove ==
    /\ SeBudget
    /\ \E c \in PositionChanges : onNodesChange(c)
    /\ scen' = [scen EXCEPT !.u = @ + 1,
                            !.mark = [NoMark EXCEPT !.nodes = nodes', !.edges = edges']]
    /\ opCount' = opCount + 1

SeAddNode ==
    /\ SeBudget
    /\ Len(nodes) < MaxNodes
    /\ addNode("upsell", 0, now)
    /\ Spend

SeDeleteNode ==
    /\ SeBudget
    /\ \E id \in PointerIds : deleteNode(id)
    /\ Spend

SeUndo ==
    /\ SeBudget
    /\ undo
    /\ Spend

SeRedo ==
    /\ SeBudget
    /\ redo
    /\ Spend

SeFire == \E t \in timers : TimerFire(t) /\ UNCHANGED <<opCount, scen>>

NextSettle ==
    \/ SeMount
    \/ SeMove
    \/ SeAddNode
    \/ SeDeleteNode
    \/ SeUndo
    \/ SeRedo
    \/ SeFire

\* the pending timer's callback runs: the browser calls it once the 300 ms
\* have passed, and the callback clears the timer reference
TimerExpires == timers # {} /\ timers' = {}

SpecSettle == InitSettle /\ [][NextSettle]_vars /\ WF_timers(TimerExpires)

\* the store is idle and no timer is pending
Idle == ~isDraggingRef /\ timers = {}

\* the history has an entry for the state the last position change left
DraggedStateRecorded ==
    \E i \in 1..Len(history) :
        /\ Unwarned(history[i].nodes) = Unwarned(scen.mark.nodes)
        /\ history[i].edges = scen.mark.edges

\* C37: whenever the store is dragging, it is idle later with no timer
\* pending and with an entry in the history for the state the last position
\* change left, whatever calls of undo, redo or other mutations come in
\* between.
DragAlwaysSettles ==
    isDraggingRef ~> (Idle /\ DraggedStateRecorded)

----------------------------------------------------------------------------
(* Specification SpecSuffix: a funnel is loaded from the storage, then     *)
(* MaxSuffixOps calls of addNode of every kind, importFunnel, clearFunnel, *)
(* undo and redo follow in any order.  The stored and imported documents   *)
(* carry labels without a number and labels that end in 0.                 *)

MaxSuffixOps == 3

\* a funnel whose labels end in 0, below every seed of the counters
ZeroSuffixNodes ==
    << MkNode(SalesId, "salesPage", Label("Sales Page", 0), 50, Undefined, Undefined),
       MkNode(<<"upsell", 0>>, "upsell", Label("Upsell", 0), 0, Undefined, Undefined) >>

SuffixTexts ==
    { Stringify(ZeroSuffixNodes, <<>>),
      Stringify(BareUpsellNodes, <<>>),
      Stringify(HandWrittenNodes, HandWrittenEdges) }

InitSuffix ==
    /\ InitStore
    /\ storage \in {Absent, Garbage} \cup SuffixTexts
    /\ opCount = 0
    /\ scen = [NoScen EXCEPT !.phase = "suffix"]

SxBudget == opCount < MaxSuffixOps

SxMount == Mount /\ UNCHANGED <<opCount, scen>>

SxAddNode ==
    /\ SxBudget
    /\ \E ty \in NodeType : addNode(ty, 0, now)
    /\ Spend

SxImport ==
    /\ SxBudget
    /\ \E json \in {Garbage} \cup SuffixTexts : importFunnel(json)
    /\ Spend

SxClear ==
    /\ SxBudget
    /\ clearFunnel
    /\ Spend

SxUndo ==
    /\ SxBudget
    /\ undo
    /\ Spend

SxRedo ==
    /\ SxBudget
    /\ redo
    /\ Spend

NextSuffix ==
    \/ SxMount
    \/ SxAddNode
    \/ SxImport
    \/ SxClear
    \/ SxUndo
    \/ SxRedo

SpecSuffix == InitSuffix /\ [][NextSuffix]_vars

\* the kinds whose counter is seeded with 1
SeededKinds == {"salesPage", "orderPage", "thankYou"}

\* the nodes of ns whose label ends in no number, each as id and label
BareNodes(ns) ==
    {<<ns[i].id, ns[i].label>> : i \in {j \in 1..Len(ns) : ns[j].label.num = NoNum}}

HistoryBareNodes ==
    UNION {BareNodes(history[i].nodes) : i \in 1..Len(history)}

\* C38: the counters of SalesPage, OrderPage and ThankYou are never below
\* 1 and those of Upsell and Downsell never below 0; the node that addNode
\* appends carries a label that ends in the new count, which is at least 2
\* for SalesPage, OrderPage and ThankYou and at least 1 for Upsell and
\* Downsell; and a node whose label is the bare display name was in the
\* funnel or in the history before the step, or the step is the load at
\* mount or an import.
AddedLabelsNumbered ==
    /\ [](/\ \A ty \in SeededKinds : labelCounts[ty] >= 1
          /\ \A ty \in NodeType \ SeededKinds : labelCounts[ty] >= 0)
    /\ [][(last'.op = "addNode" /\ opCount' = opCount + 1) =>
             LET new == nodes'[Len(nodes')]
                 ty == new.nodeType
             IN  /\ nodes' = Append(nodes, new)
                 /\ new.label.name = NODE_TYPE_CONFIG[ty].label
                 /\ new.label.num # NoNum
                 /\ new.label.num = labelCounts'[ty]
                 /\ new.label.num >= (IF ty \in SeededKinds THEN 2 ELSE 1)]_vars
    /\ [][(isInitialized' /\ last'.op \notin {"mount", "import"}) =>
             BareNodes(nodes') \subseteq BareNodes(nodes) \cup HistoryBareNodes]_vars

\* C38 witness: the funnel was cleared and a sales page added to the empty
\* funnel; it is the only node and is labelled "Sales Page 2".
AddedLabelsNumberedWitness ==
    /\ scen.phase = "suffix"
    /\ last.op = "addNode"
    /\ Len(nodes) = 1
    /\ nodes[1].label = Label("Sales Page", 2)
    /\ labelCounts = [createLabelCounter EXCEPT !["salesPage"] = 2]

====
